---- MODULE Spec2Model ----
(***************************************************************************)
(* Model of torchrl/envs/utils.py: the time-step transition engine         *)
(* (step_mdp, _set, _set_single_key and the stateful _StepMDP), the        *)
(* episode-boundary aggregators (_terminated_or_truncated,                 *)
(* terminated_or_truncated) and the reset merge (_update_during_reset).    *)
(*                                                                         *)
(* A tensordict is a function from key names (strings) to entries.  An     *)
(* entry is a leaf (a tensor), a nested tensordict, or the Python value    *)
(* None (which _get_str(k, None) returns for a missing key and which       *)
(* _set_str(..., validated=True) stores without inspection).  The code     *)
(* never computes on tensor payloads, it only relocates them, so a tensor  *)
(* is modelled by its identity: the key path at which the input batch      *)
(* holds it (<<"next", "obs">> is the tensor stored under next/obs).       *)
(*                                                                         *)
(* The first sections take plain TensorDict inputs; the destination batch  *)
(* and the LazyStackedTensorDict branch of step_mdp (lines 342-367) have a *)
(* section of their own, as have the episode-boundary aggregators and      *)
(* _update_during_reset.  The LazyStackedTensorDict branches of lines      *)
(* 205-210, 430-437 and 467-477 are not reached by the inputs.  Key        *)
(* iteration order (tensordict.keys()) is not modelled: every iteration of *)
(* the loops at lines 388-395 reads and writes only the entry of its own   *)
(* key.                                                                    *)
(***************************************************************************)
EXTENDS Integers, Sequences, FiniteSets, TLC

VARIABLES
    op,          \* position: "input" (arguments drawn), "done" (the call returned or raised),
                 \* "ready" (_StepMDP constructed), "called" (_StepMDP.__call__ returned)
    tensordict,  \* the batch given to the last / pending call
    config,      \* the keyword arguments of the pending step_mdp call
    result,      \* outcome of the last call: [err, out]
    env,         \* the environment's declared key lists (for _StepMDP)
    self,        \* the _StepMDP instance's fields
    warnings,    \* number of warnings.warn calls made by validate
    compared,    \* number of key-set comparisons executed by validate
    path,        \* branch taken by the last __call__: "fast", "fallback", "none"
    ncalls,      \* number of __call__ invocations so far
    next_tensordict,  \* the destination object given to step_mdp (mutated in place)
    returned,    \* which object step_mdp returned: "next_tensordict", "out", "None"
    eot_data,    \* the `data` object given to the aggregator (mutated in place)
    tensordict_reset  \* the post-reset batch given to _update_during_reset

vars == <<op, tensordict, config, result, env, self, warnings, compared, path, ncalls,
          next_tensordict, returned, eot_data, tensordict_reset>>

-----------------------------------------------------------------------------
(* Nested keys.  A NestedKey is a str or a tuple of str. *)

StrKey(s) == [kind |-> "str", path |-> <<s>>]
TupleKey(p) == [kind |-> "tuple", path |-> p]

\* tensordict.unravel_key: a tuple of one element canonicalises to the bare string,
\* nested tuples are flattened (paths are already flat sequences here).
unravel_key(key) ==
    IF Len(key.path) = 1 THEN StrKey(key.path[1]) ELSE TupleKey(key.path)

\* unravel_key(("next", key))
NextKey(key) == unravel_key(TupleKey(<<"next">> \o key.path))

\* a list of keys as the set of its members
ListSet(list) == {list[i] : i \in 1..Len(list)}

-----------------------------------------------------------------------------
(* Tensordict entries and primitives. *)

NoVal == <<>>
Leaf(v) == [tag |-> "leaf", val |-> v, td |-> <<>>]
Node(d) == [tag |-> "td", val |-> NoVal, td |-> d]
None == [tag |-> "none", val |-> NoVal, td |-> <<>>]

\* TensorDict.empty(): same batch size and device, no entries
EmptyTD == <<>>

\* is_tensor_collection(val)
is_tensor_collection(val) == val.tag = "td"

\* td._get_str(key, None) / td.get(key, None): the entry, None when absent
GetStr(td, key) == IF key \in DOMAIN td THEN td[key] ELSE None

\* td._set_str(key, value, inplace=False, validated=True): insert or overwrite
SetStr(td, key, value) ==
    [k \in (DOMAIN td) \cup {key} |-> IF k = key THEN value ELSE td[k]]

\* TensorDict.set with a nested key: intermediate tensordicts are created
RECURSIVE SetPath(_, _, _)
SetPath(td, p, value) ==
    IF Len(p) = 1
    THEN SetStr(td, p[1], value)
    ELSE LET cur == GetStr(td, p[1])
             sub == IF is_tensor_collection(cur) THEN cur.td ELSE EmptyTD
         IN  SetStr(td, p[1], Node(SetPath(sub, Tail(p), value)))

\* td.keys(True, True) as paths: the paths of all entries that are not tensordicts
RECURSIVE Leaves(_)
Leaves(td) ==
    UNION { IF is_tensor_collection(td[k])
            THEN {<<k>> \o q : q \in Leaves(td[k].td)}
            ELSE {<<k>>} : k \in DOMAIN td }

\* td.keys(include_nested=True, leaves_only=True): canonical nested keys
LeafKeys(td) == {unravel_key(TupleKey(p)) : p \in Leaves(td)}

\* td.get(path) for a path known to be in Leaves(td)
RECURSIVE GetPath(_, _)
GetPath(td, p) ==
    IF Len(p) = 1 THEN td[p[1]] ELSE GetPath(td[p[1]].td, Tail(p))

\* every path of td, leaves and nested tensordicts alike: td.keys(True, False)
RECURSIVE AllPaths(_)
AllPaths(td) ==
    UNION { IF is_tensor_collection(td[k])
            THEN {<<k>>} \cup {<<k>> \o q : q \in AllPaths(td[k].td)}
            ELSE {<<k>>} : k \in DOMAIN td }

-----------------------------------------------------------------------------
(* _set: copy source[key] into dest unless its full key path is excluded.  *)
(* Returns the updated dest and the non_empty flag.  A key names a tensor  *)
(* or a tensordict consistently in source and dest (a tensordict met where *)
(* dest already holds a tensor is not among the inputs).                   *)

\* variant: the exclusion test looks at the last path segment only
IsExcludedByName(total_key, excluded) ==
    StrKey(total_key[Len(total_key)]) \in excluded

\* `unravel_key(total_key) not in excluded`, negated: the full key path from the
\* traversal root, canonicalised, is a member of the exclusion set
IsExcluded(total_key, excluded) == unravel_key(TupleKey(total_key)) \in excluded

RECURSIVE _set(_, _, _, _, _)
RECURSIVE SetEach(_, _, _, _, _)

\* the loop `for subkey in val.keys(): non_empty_local = _set(...) or non_empty_local`
\* (also the loops of step_mdp at lines 388-390 and 394-395 through skip = {"next"})
SetEach(source, dest, keys, total_key, excluded) ==
    IF keys = {}
    THEN [dest |-> dest, non_empty |-> FALSE]
    ELSE LET k == CHOOSE x \in keys : TRUE
             one == _set(source, dest, k, total_key, excluded)
             rest == SetEach(source, one.dest, keys \ {k}, total_key, excluded)
         IN  [non_empty |-> one.non_empty \/ rest.non_empty, dest |-> rest.dest]

\* variant: the nested tensordict is written whether or not a leaf was copied under it
SetWritingEmpty(source, dest, key, total_key, excluded) ==
    LET total == Append(total_key, key)
    IN  IF IsExcluded(total, excluded)
        THEN [dest |-> dest, non_empty |-> FALSE]
        ELSE LET val == source[key]
             IN  IF is_tensor_collection(val)
                 THEN LET got == GetStr(dest, key)
                          new_val == IF got = None THEN EmptyTD ELSE got.td
                          sub == SetEach(val.td, new_val, DOMAIN val.td, total, excluded)
                      IN  [dest |-> SetStr(dest, key, Node(sub.dest)),
                           non_empty |-> sub.non_empty]
                 ELSE [dest |-> SetStr(dest, key, val), non_empty |-> TRUE]

_set(source, dest, key, total_key, excluded) ==
    LET total == Append(total_key, key)
    IN  IF IsExcluded(total, excluded)
        THEN [dest |-> dest, non_empty |-> FALSE]
        ELSE LET val == source[key]
             IN  IF is_tensor_collection(val)
                 THEN LET got == GetStr(dest, key)
                          new_val == IF got = None THEN EmptyTD ELSE got.td
                          sub == SetEach(val.td, new_val, DOMAIN val.td, total, excluded)
                      IN  IF sub.non_empty
                          THEN [dest |-> SetStr(dest, key, Node(sub.dest)),
                                non_empty |-> TRUE]
                          ELSE [dest |-> dest, non_empty |-> FALSE]
                 ELSE [dest |-> SetStr(dest, key, val), non_empty |-> TRUE]

-----------------------------------------------------------------------------
(* _set_single_key: walk the segments of an (unraveled) key.  source and   *)
(* dest advance only when the entry read is a tensordict; otherwise the    *)
(* entry read (a tensor, or None for a missing key) is stored under the    *)
(* segment and the loop goes on with the same source and dest.             *)

RECURSIVE SingleKeyFrom(_, _, _, _)
SingleKeyFrom(source, dest, key, i) ==
    IF i > Len(key)
    THEN dest
    ELSE LET k == key[i]
             val == GetStr(source, k)
         IN  IF is_tensor_collection(val)
             THEN LET got == GetStr(dest, k)
                      new_val == IF got = None THEN EmptyTD ELSE got.td
                  IN  SetStr(dest, k, Node(SingleKeyFrom(val.td, new_val, key, i + 1)))
             ELSE SingleKeyFrom(source, SetStr(dest, k, val), key, i + 1)

_set_single_key(source, dest, key) == SingleKeyFrom(source, dest, key.path, 1)

\* the loop `for action_key in action_keys: _set_single_key(tensordict, out, action_key)`
RECURSIVE SetSingleKeys(_, _, _, _)
SetSingleKeys(source, dest, keys, i) ==
    IF i > Len(keys)
    THEN dest
    ELSE SetSingleKeys(source, _set_single_key(source, dest, keys[i]), keys, i + 1)

-----------------------------------------------------------------------------
(* step_mdp (stateless), called without a destination batch.               *)

\* a reward_keys / done_keys / action_keys argument: a list, or one bare key
KeyList(list) == [isList |-> TRUE, list |-> list, key |-> StrKey("")]
OneKey(key) == [isList |-> FALSE, list |-> <<>>, key |-> key]

\* `if not isinstance(keys, list): keys = [keys]`
AsList(arg) == IF arg.isList THEN arg.list ELSE <<arg.key>>

\* variant: the action keys are never added to the exclusion set
ExcludedNoAction(exclude_reward, exclude_done, exclude_action, reward_keys, done_keys, action_keys) ==
    (IF exclude_reward THEN ListSet(reward_keys) ELSE {})
        \cup (IF exclude_done THEN ListSet(done_keys) ELSE {})

\* variant: exclude_done adds the reward keys instead of the done keys
ExcludedDoneAsReward(exclude_reward, exclude_done, exclude_action, reward_keys, done_keys, action_keys) ==
    (IF exclude_reward THEN ListSet(reward_keys) ELSE {})
        \cup (IF exclude_done THEN ListSet(reward_keys) ELSE {})
        \cup (IF exclude_action THEN ListSet(action_keys) ELSE {})

\* the exclusion set: the union of the key lists whose exclude_* flag is true
Excluded(exclude_reward, exclude_done, exclude_action, reward_keys, done_keys, action_keys) ==
    (IF exclude_reward THEN ListSet(reward_keys) ELSE {})
        \cup (IF exclude_done THEN ListSet(done_keys) ELSE {})
        \cup (IF exclude_action THEN ListSet(action_keys) ELSE {})

\* variant: keep_other is ignored, only the action keys are ever carried
FromRootActionsOnly(td, out, keep_other, exclude_action, action_keys, excluded) ==
    IF ~exclude_action
    THEN SetSingleKeys(td, out, action_keys, 1)
    ELSE out

\* variant: keep_other is ignored, the root is always carried
FromRootAlwaysKeep(td, out, keep_other, exclude_action, action_keys, excluded) ==
    SetEach(td, out, (DOMAIN td) \ {"next"}, <<>>, excluded).dest

\* what is carried from the root: everything but "next" through _set when
\* keep_other, else the action keys alone through _set_single_key
FromRoot(td, out, keep_other, exclude_action, action_keys, excluded) ==
    IF keep_other
    THEN SetEach(td, out, (DOMAIN td) \ {"next"}, <<>>, excluded).dest
    ELSE IF ~exclude_action
         THEN SetSingleKeys(td, out, action_keys, 1)
         ELSE out

\* variant: entries of "next" do not replace entries already carried from the root
FromNextKeepExisting(next_td, out, excluded) ==
    SetEach(next_td, out, (DOMAIN next_td) \ (DOMAIN out), <<>>, excluded).dest

\* `for key in next_td.keys(): _set(next_td, out, key, total_key, excluded)`
FromNext(next_td, out, excluded) ==
    SetEach(next_td, out, DOMAIN next_td, <<>>, excluded).dest

Raised == [err |-> TRUE, out |-> EmptyTD]
Returned(out) == [err |-> FALSE, out |-> out]

step_mdp(td, cfg) ==
    LET action_keys == AsList(cfg.action_keys)
        done_keys == AsList(cfg.done_keys)
        reward_keys == AsList(cfg.reward_keys)
        excluded == Excluded(cfg.exclude_reward, cfg.exclude_done, cfg.exclude_action,
                             reward_keys, done_keys, action_keys)
    IN  IF ~is_tensor_collection(GetStr(td, "next"))
        THEN Raised    \* tensordict.get("next") raises KeyError
        ELSE LET next_td == td["next"].td
                 out == EmptyTD
                 kept == FromRoot(td, out, cfg.keep_other, cfg.exclude_action,
                                  action_keys, excluded)
             IN  Returned(FromNext(next_td, kept, excluded))

-----------------------------------------------------------------------------
(* Input batches.  A batch is built from the set of its leaf paths (and of *)
(* its empty nested tensordicts); each leaf holds the tensor named by its  *)
(* own path.                                                               *)

RECURSIVE WithContainers(_, _)
WithContainers(td, conts) ==
    IF conts = {}
    THEN td
    ELSE LET p == CHOOSE x \in conts : \A y \in conts : Len(x) <= Len(y)
         IN  WithContainers(SetPath(td, p, Node(EmptyTD)), conts \ {p})

RECURSIVE WithLeaves(_, _)
WithLeaves(td, paths) ==
    IF paths = {}
    THEN td
    ELSE LET p == CHOOSE x \in paths : TRUE
         IN  WithLeaves(SetPath(td, p, Leaf(p)), paths \ {p})

BatchOf(conts, paths) == WithLeaves(WithContainers(EmptyTD, conts), paths)

\* flat batches: the keys of the docstring example, plus an action under "next"
FlatRootPool == {<<"done">>, <<"reward">>, <<"extra">>, <<"obs">>, <<"action">>}
FlatNextPool == {<<"next", "done">>, <<"next", "reward">>, <<"next", "obs">>,
                 <<"next", "action">>}
FlatBatches ==
    {BatchOf({<<"next">>}, r \cup n) : r \in SUBSET FlatRootPool, n \in SUBSET FlatNextPool}

\* batches with a nested "agents" tensordict (multi-agent grouping)
NestedRootPool == {<<"reward">>, <<"action">>, <<"agents", "obs">>,
                   <<"agents", "reward">>, <<"agents", "action">>}
NestedNextPool == {<<"next", "reward">>, <<"next", "agents", "obs">>,
                   <<"next", "agents", "reward">>, <<"next", "agents", "action">>}
NestedBatches ==
    {BatchOf({<<"next">>} \cup c, r \cup n) :
        c \in SUBSET {<<"agents">>, <<"next", "agents">>},
        r \in SUBSET NestedRootPool, n \in SUBSET NestedNextPool}

\* batches without the "next" sub-batch
NoNextBatches == {BatchOf({}, r) : r \in SUBSET FlatRootPool}

Batches == FlatBatches \cup NestedBatches \cup NoNextBatches

\* the key arguments: the defaults (bare strings), nested keys, and both
DefaultKeys ==
    [reward_keys |-> OneKey(StrKey("reward")),
     done_keys |-> OneKey(StrKey("done")),
     action_keys |-> OneKey(StrKey("action"))]
NestedKeys ==
    [reward_keys |-> KeyList(<<TupleKey(<<"agents", "reward">>)>>),
     done_keys |-> KeyList(<<StrKey("done")>>),
     action_keys |-> KeyList(<<TupleKey(<<"agents", "action">>)>>)]
BothKeys ==
    [reward_keys |-> KeyList(<<StrKey("reward"), TupleKey(<<"agents", "reward">>)>>),
     done_keys |-> KeyList(<<StrKey("done")>>),
     action_keys |-> KeyList(<<StrKey("action"), TupleKey(<<"agents", "action">>)>>)]
KeyArgs == {DefaultKeys, NestedKeys, BothKeys}

Flags == [keep_other : BOOLEAN, exclude_reward : BOOLEAN,
          exclude_done : BOOLEAN, exclude_action : BOOLEAN]

ConfigOf(f, k) ==
    [keep_other |-> f.keep_other, exclude_reward |-> f.exclude_reward,
     exclude_done |-> f.exclude_done, exclude_action |-> f.exclude_action,
     reward_keys |-> k.reward_keys, done_keys |-> k.done_keys,
     action_keys |-> k.action_keys]

Configs == {ConfigOf(f, k) : f \in Flags, k \in KeyArgs}

\* step_mdp's default keyword arguments (lines 235-241)
DefaultConfig ==
    ConfigOf([keep_other |-> TRUE, exclude_reward |-> TRUE,
              exclude_done |-> FALSE, exclude_action |-> TRUE], DefaultKeys)

-----------------------------------------------------------------------------
(* Specification of the stateless transition: the arguments are drawn,     *)
(* step_mdp is applied once.                                               *)

NoEnv == [action_keys |-> <<>>, done_keys |-> <<>>, reward_keys |-> <<>>,
          observation_keys |-> <<>>, state_keys |-> <<>>]
NoSelf == [validated |-> "None"]
\* `next_tensordict=None`: no destination object
NoObject == [kind |-> "None", td |-> EmptyTD, tensordicts |-> <<>>]

InitStep ==
    /\ op = "input"
    /\ tensordict \in Batches
    /\ config \in Configs
    /\ result = Returned(EmptyTD)
    /\ env = NoEnv
    /\ self = NoSelf
    /\ warnings = 0
    /\ compared = 0
    /\ path = "none"
    /\ ncalls = 0
    /\ next_tensordict = NoObject
    /\ returned = "None"
    /\ eot_data = EmptyTD
    /\ tensordict_reset = EmptyTD

StepMdp ==
    /\ op = "input"
    /\ op' = "done"
    /\ result' = step_mdp(tensordict, config)
    /\ UNCHANGED <<tensordict, config, env, self, warnings, compared, path, ncalls,
                   next_tensordict, returned, eot_data, tensordict_reset>>

NextStep == StepMdp

SpecStep == InitStep /\ [][NextStep]_vars

-----------------------------------------------------------------------------
(* _StepMDP: the stateful transition engine.                               *)

MaxCalls == 3

\* [unravel_key(key) for key in keys]
UnravelAll(keys) == [i \in 1..Len(keys) |-> unravel_key(keys[i])]

\* _repr_key_list_as_tree: the nested dict of the key list, every leaf None
RECURSIVE ReprFrom(_, _, _)

\* variant: every key starts a new tree
ReprFromAnew(key_list, i, tree) ==
    IF i > Len(key_list)
    THEN tree
    ELSE ReprFrom(key_list, i + 1, SetPath(EmptyTD, key_list[i].path, None))

ReprFrom(key_list, i, tree) ==
    IF i > Len(key_list)
    THEN tree
    ELSE ReprFrom(key_list, i + 1, SetPath(tree, key_list[i].path, None))

_repr_key_list_as_tree(key_list) == ReprFrom(key_list, 1, EmptyTD)

\* variant: the done keys are never taken from "next"
KeysFromNextNoDone(observation_keys, reward_keys, done_keys, exclude_reward, exclude_done) ==
    observation_keys \o (IF ~exclude_reward THEN reward_keys ELSE <<>>)

\* self.keys_from_next, as a list (lines 129-133)
KeysFromNext(observation_keys, reward_keys, done_keys, exclude_reward, exclude_done) ==
    observation_keys
        \o (IF ~exclude_reward THEN reward_keys ELSE <<>>)
        \o (IF ~exclude_done THEN done_keys ELSE <<>>)

\* self.keys_from_root, as a list (lines 134-138)
KeysFromRoot(action_keys, state_keys, exclude_action, keep_other) ==
    (IF ~exclude_action THEN action_keys ELSE <<>>)
        \o (IF keep_other THEN state_keys ELSE <<>>)

\* _StepMDP.__init__(env, keep_other=..., exclude_reward=..., ...)
StepMDPInit(e, f) ==
    LET action_keys == UnravelAll(e.action_keys)
        done_keys == UnravelAll(e.done_keys)
        reward_keys == UnravelAll(e.reward_keys)
        observation_keys == UnravelAll(e.observation_keys)
        state_keys == UnravelAll(e.state_keys)
        excluded == Excluded(f.exclude_reward, f.exclude_done, f.exclude_action,
                             reward_keys, done_keys, action_keys)
    IN  [action_keys |-> action_keys,
         done_keys |-> done_keys,
         reward_keys |-> reward_keys,
         observation_keys |-> observation_keys,
         state_keys |-> state_keys,
         excluded |-> {unravel_key(key) : key \in excluded},
         keep_other |-> f.keep_other,
         exclude_action |-> f.exclude_action,
         keys_from_root |-> _repr_key_list_as_tree(
             KeysFromRoot(action_keys, state_keys, f.exclude_action, f.keep_other)),
         keys_from_next |-> _repr_key_list_as_tree(
             KeysFromNext(observation_keys, reward_keys, done_keys,
                          f.exclude_reward, f.exclude_done)),
         validated |-> "None"]

\* the key set validate expects (lines 148-156)
ExpectedKeys(me) ==
    ListSet(me.state_keys) \cup ListSet(me.action_keys) \cup ListSet(me.done_keys)
        \cup ListSet(me.observation_keys)
        \cup {NextKey(key) : key \in ListSet(me.observation_keys)}
        \cup {NextKey(key) : key \in ListSet(me.done_keys)}
        \cup {NextKey(key) : key \in ListSet(me.reward_keys)}

\* variant: the comparison is made again whenever the flag is not True
ValidateAgain(me, td) ==
    IF me.validated = "True"
    THEN [validated |-> "True", ret |-> TRUE, compared |-> 0, warned |-> 0]
    ELSE LET ok == ExpectedKeys(me) = LeafKeys(td)
         IN  [validated |-> IF ok THEN "True" ELSE "False", ret |-> ok,
              compared |-> 1, warned |-> IF ok THEN 0 ELSE 1]

\* _StepMDP.validate: the new flag, the value returned, and how many comparisons
\* and warnings the call made
validate(me, td) ==
    IF me.validated = "True"
    THEN [validated |-> "True", ret |-> TRUE, compared |-> 0, warned |-> 0]
    ELSE IF me.validated = "None"
         THEN LET ok == ExpectedKeys(me) = LeafKeys(td)
              IN  [validated |-> IF ok THEN "True" ELSE "False", ret |-> ok,
                   compared |-> 1, warned |-> IF ok THEN 0 ELSE 1]
         ELSE [validated |-> "False", ret |-> FALSE, compared |-> 0, warned |-> 0]

\* _grab_and_place: copy the entries named by the tree from data_in into data_out.
\* _get_str(key, NO_DEFAULT) raises KeyError for a missing key, and descending
\* into an entry that is not a tensordict raises AttributeError.
RECURSIVE GrabEach(_, _, _, _)
GrabEach(nested_key_dict, data_in, data_out, keys) ==
    IF keys = {}
    THEN Returned(data_out)
    ELSE LET key == CHOOSE x \in keys : TRUE
             subdict == nested_key_dict[key]
             val == GetStr(data_in, key)
         IN  IF val = None
             THEN Raised
             ELSE IF subdict # None
                  THEN IF ~is_tensor_collection(val)
                       THEN Raised
                       ELSE LET got == GetStr(data_out, key)
                                val_out == IF got = None THEN EmptyTD ELSE got.td
                                sub == GrabEach(subdict.td, val.td, val_out,
                                                DOMAIN subdict.td)
                            IN  IF sub.err
                                THEN Raised
                                ELSE GrabEach(nested_key_dict, data_in,
                                              SetStr(data_out, key, Node(sub.out)),
                                              keys \ {key})
                  ELSE GrabEach(nested_key_dict, data_in,
                                SetStr(data_out, key, val), keys \ {key})

_grab_and_place(nested_key_dict, data_in, data_out) ==
    GrabEach(nested_key_dict, data_in, data_out, DOMAIN nested_key_dict)

\* the validated branch of __call__ (lines 215-217)
FastPath(me, td, next_td, out) ==
    LET kept == _grab_and_place(me.keys_from_root, td, out)
    IN  IF kept.err
        THEN Raised
        ELSE _grab_and_place(me.keys_from_next, next_td, kept.out)

\* variant: the fallback carries nothing from the root
FallbackNextOnly(me, td, next_td, out) ==
    Returned(FromNext(next_td, out, me.excluded))

\* the fallback branch of __call__ (lines 219-229)
Fallback(me, td, next_td, out) ==
    Returned(FromNext(next_td,
                      FromRoot(td, out, me.keep_other, me.exclude_action,
                               me.action_keys, me.excluded),
                      me.excluded))

\* variant: a missing "next" is taken for an empty sub-batch
StepMDPCallTolerant(me, td) ==
    LET nxt == GetStr(td, "next")
        next_td == IF is_tensor_collection(nxt) THEN nxt.td ELSE EmptyTD
        out == EmptyTD
        v == validate(me, td)
    IN  [res |-> IF v.ret
                 THEN FastPath(me, td, next_td, out)
                 ELSE Fallback(me, td, next_td, out),
         path |-> IF v.ret THEN "fast" ELSE "fallback",
         validated |-> v.validated,
         compared |-> v.compared,
         warned |-> v.warned]

\* _StepMDP.__call__ on a plain TensorDict: the outcome, the branch taken and
\* validate's effects.  next_td.empty() raises AttributeError when "next" is absent.
StepMDPCall(me, td) ==
    IF ~is_tensor_collection(GetStr(td, "next"))
    THEN [res |-> Raised, path |-> "none", validated |-> me.validated,
          compared |-> 0, warned |-> 0]
    ELSE LET next_td == td["next"].td
             out == EmptyTD
             v == validate(me, td)
         IN  [res |-> IF v.ret
                      THEN FastPath(me, td, next_td, out)
                      ELSE Fallback(me, td, next_td, out),
              path |-> IF v.ret THEN "fast" ELSE "fallback",
              validated |-> v.validated,
              compared |-> v.compared,
              warned |-> v.warned]

-----------------------------------------------------------------------------
(* Environments and the batches given to a _StepMDP instance.              *)

EnvFlat ==
    [action_keys |-> <<StrKey("action")>>, done_keys |-> <<StrKey("done")>>,
     reward_keys |-> <<StrKey("reward")>>, observation_keys |-> <<StrKey("obs")>>,
     state_keys |-> <<>>]
\* a state entry that is an input only
EnvState ==
    [action_keys |-> <<StrKey("action")>>, done_keys |-> <<StrKey("done")>>,
     reward_keys |-> <<StrKey("reward")>>, observation_keys |-> <<StrKey("obs")>>,
     state_keys |-> <<StrKey("extra")>>]
\* a state entry that the environment also returns as an observation
EnvCarriedState ==
    [action_keys |-> <<StrKey("action")>>, done_keys |-> <<StrKey("done")>>,
     reward_keys |-> <<StrKey("reward")>>,
     observation_keys |-> <<StrKey("obs"), StrKey("extra")>>,
     state_keys |-> <<StrKey("extra")>>]
\* a multi-agent environment: per-group action, reward and observation
EnvNested ==
    [action_keys |-> <<TupleKey(<<"agents", "action">>)>>,
     done_keys |-> <<StrKey("done")>>,
     reward_keys |-> <<TupleKey(<<"agents", "reward">>)>>,
     observation_keys |-> <<TupleKey(<<"agents", "obs">>), StrKey("obs")>>,
     state_keys |-> <<>>]
Envs == {EnvFlat, EnvState, EnvCarriedState, EnvNested}

\* the leaf paths of a batch that matches the declaration of e
DeclaredPaths(e) ==
    LET root == ListSet(e.state_keys) \cup ListSet(e.action_keys)
                    \cup ListSet(e.done_keys) \cup ListSet(e.observation_keys)
        nxt == ListSet(e.observation_keys) \cup ListSet(e.done_keys)
                    \cup ListSet(e.reward_keys)
    IN  {k.path : k \in root} \cup {<<"next">> \o k.path : k \in nxt}

\* entries no declaration above holds at that place
ExtraPaths == {<<"other">>, <<"reward">>, <<"agents", "other">>,
               <<"next", "other">>, <<"next", "action">>}

\* the matching batch, with at most one entry missing and at most one added,
\* and the batch whose "next" sub-batch is missing
BatchesFor(e) ==
    {BatchOf({<<"next">>}, (DeclaredPaths(e) \ drop) \cup add) :
        drop \in {{}} \cup {{p} : p \in DeclaredPaths(e)},
        add \in {{}} \cup {{p} : p \in ExtraPaths}}
    \cup {BatchOf({}, {p \in DeclaredPaths(e) : p[1] # "next"})}

EnvKeys(e) ==
    [reward_keys |-> KeyList(e.reward_keys), done_keys |-> KeyList(e.done_keys),
     action_keys |-> KeyList(e.action_keys)]

-----------------------------------------------------------------------------
(* Specification of the stateful engine: an instance is constructed for an *)
(* environment and a flag setting, then called on a sequence of batches.   *)

InitStepMDP ==
    /\ op = "ready"
    /\ env \in Envs
    /\ \E f \in Flags :
          /\ config = ConfigOf(f, EnvKeys(env))
          /\ self = StepMDPInit(env, f)
    /\ tensordict = EmptyTD
    /\ result = Returned(EmptyTD)
    /\ warnings = 0
    /\ compared = 0
    /\ path = "none"
    /\ ncalls = 0
    /\ next_tensordict = NoObject
    /\ returned = "None"
    /\ eot_data = EmptyTD
    /\ tensordict_reset = EmptyTD

Call ==
    /\ op \in {"ready", "called"}
    /\ ncalls < MaxCalls
    /\ \E td \in BatchesFor(env) :
          LET c == StepMDPCall(self, td)
          IN  /\ tensordict' = td
              /\ result' = c.res
              /\ path' = c.path
              /\ self' = [self EXCEPT !.validated = c.validated]
              /\ compared' = compared + c.compared
              /\ warnings' = warnings + c.warned
    /\ op' = "called"
    /\ ncalls' = ncalls + 1
    /\ UNCHANGED <<config, env, next_tensordict, returned, eot_data, tensordict_reset>>

NextStepMDP == Call

SpecStepMDP == InitStepMDP /\ [][NextStepMDP]_vars

-----------------------------------------------------------------------------
(* Vocabulary of the properties.                                           *)

\* the leaf paths of the root batch outside "next", and those of the "next" sub-batch
RootLeaves(td) == {p \in Leaves(td) : p[1] # "next"}
NextLeaves(td) == Leaves(td["next"].td)
NextTD(td) == td["next"].td

\* the paths named by a key argument
KeyPaths(arg) == {k.path : k \in ListSet(AsList(arg))}

\* the exclusion set as the properties state it: the key lists whose flag is true
ClaimExcluded(cfg) ==
    (IF cfg.exclude_reward THEN KeyPaths(cfg.reward_keys) ELSE {})
        \cup (IF cfg.exclude_done THEN KeyPaths(cfg.done_keys) ELSE {})
        \cup (IF cfg.exclude_action THEN KeyPaths(cfg.action_keys) ELSE {})

\* step_mdp has returned a batch
Stepped == op = "done" /\ ~result.err

\* a flat batch: a "next" sub-batch, and nothing but tensors in the root and in "next"
IsFlat(td) ==
    /\ "next" \in DOMAIN td
    /\ is_tensor_collection(td["next"])
    /\ \A k \in (DOMAIN td) \ {"next"} : td[k].tag = "leaf"
    /\ \A k \in DOMAIN td["next"].td : td["next"].td[k].tag = "leaf"

\* the batch of the docstring example (lines 283-294)
ExampleBatch ==
    BatchOf({<<"next">>},
            {<<"done">>, <<"reward">>, <<"extra">>, <<"obs">>, <<"action">>,
             <<"next", "done">>, <<"next", "reward">>, <<"next", "obs">>})

-----------------------------------------------------------------------------
-----------------------------------------------------------------------------
(* C2: for every flag combination the result holds every leaf path of the  *)
(* "next" sub-batch that is not an action, done or reward key path, with   *)
(* the value it has in "next".                                             *)
C2_ObservationsFromNext ==
    Stepped =>
        \A p \in NextLeaves(tensordict) :
            p \notin KeyPaths(config.action_keys) \cup KeyPaths(config.done_keys)
                         \cup KeyPaths(config.reward_keys)
            => /\ p \in Leaves(result.out)
               /\ GetPath(result.out, p) = GetPath(NextTD(tensordict), p)

\* a nested observation replaces the root's one, with root keys kept
C2_Witness ==
    /\ Stepped
    /\ config.keep_other
    /\ <<"agents", "obs">> \in RootLeaves(tensordict)
    /\ <<"agents", "obs">> \in Leaves(result.out)
    /\ GetPath(result.out, <<"agents", "obs">>) = Leaf(<<"next", "agents", "obs">>)

-----------------------------------------------------------------------------
\* one category of keys, with its flag
CategoryFromNext(exclude_c, c_keys) ==
    /\ ~exclude_c =>
          \A p \in KeyPaths(c_keys) \cap NextLeaves(tensordict) :
              /\ p \in Leaves(result.out)
              /\ GetPath(result.out, p) = GetPath(NextTD(tensordict), p)
    /\ exclude_c =>
          \A p \in KeyPaths(c_keys) : p \notin AllPaths(result.out)

(* C3: for c in {reward, done}: when exclude_c is false every c key of     *)
(* "next" is in the result with next's value (overwriting a root value);   *)
(* when exclude_c is true no c key path is anywhere in the result.         *)
C3_RewardDoneFromNext ==
    Stepped =>
        /\ CategoryFromNext(config.exclude_reward, config.reward_keys)
        /\ CategoryFromNext(config.exclude_done, config.done_keys)

\* done is kept: the root's done is overwritten by next's, while reward is dropped
C3_Witness ==
    /\ Stepped
    /\ config.keep_other /\ ~config.exclude_done /\ config.exclude_reward
    /\ {<<"done">>, <<"reward">>} \subseteq RootLeaves(tensordict)
    /\ {<<"done">>, <<"reward">>} \subseteq NextLeaves(tensordict)
    /\ result.out["done"] = Leaf(<<"next", "done">>)
    /\ "reward" \notin DOMAIN result.out

-----------------------------------------------------------------------------
(* C4 (as claimed): when exclude_action is false every action key of the   *)
(* result holds the root's value, never next's, also when "next" has an    *)
(* entry under the same path; when exclude_action is true no action key    *)
(* path is in the result.  Stated for batches whose root holds every       *)
(* action key.                                                             *)
C4_ActionsFromRootOnly ==
    (Stepped /\ KeyPaths(config.action_keys) \subseteq RootLeaves(tensordict)) =>
        /\ ~config.exclude_action =>
              \A p \in KeyPaths(config.action_keys) \cap Leaves(result.out) :
                  GetPath(result.out, p) = GetPath(tensordict, p)
        /\ config.exclude_action =>
              \A p \in KeyPaths(config.action_keys) : p \notin AllPaths(result.out)

-----------------------------------------------------------------------------
NotExcludedPath(p, cfg) ==
    \A i \in 1..Len(p) : SubSeq(p, 1, i) \notin ClaimExcluded(cfg)

-----------------------------------------------------------------------------
-----------------------------------------------------------------------------
(* C7: the exclusion set is the union of the reward, done and action key   *)
(* lists whose flag is true, and an entry is excluded iff its full key     *)
(* path is a member: no member is anywhere in the result, and every leaf   *)
(* of "next" (and of the root, with keep_other) that is not a member is.   *)
C7_ExclusionByFullPath ==
    Stepped =>
        /\ \A p \in ClaimExcluded(config) : p \notin AllPaths(result.out)
        /\ \A p \in NextLeaves(tensordict) :
              p \notin ClaimExcluded(config) => p \in Leaves(result.out)
        /\ config.keep_other =>
              \A p \in RootLeaves(tensordict) :
                  p \notin ClaimExcluded(config) => p \in Leaves(result.out)

\* excluding the root-level "reward" leaves ("agents", "reward") in the result
C7_Witness ==
    /\ Stepped
    /\ ClaimExcluded(config) = {<<"reward">>, <<"action">>}
    /\ {<<"reward">>, <<"agents", "reward">>} \subseteq NextLeaves(tensordict)
    /\ <<"agents", "reward">> \in Leaves(result.out)
    /\ <<"reward">> \notin Leaves(result.out)

-----------------------------------------------------------------------------
(* Vocabulary of the properties on _StepMDP.                               *)

Called == op = "called"
HasNext(td) == is_tensor_collection(GetStr(td, "next"))
\* the batch's leaf key set equals the key set the environment declares
MatchesDeclaration(td) == Leaves(td) = DeclaredPaths(env)

(* C8: on a batch whose leaf key set equals the declared one, for every    *)
(* flag combination, the _StepMDP instance and step_mdp (same flags, the   *)
(* environment's key lists) return the same batch.                         *)
C8_StatefulEqualsStateless ==
    (Called /\ MatchesDeclaration(tensordict)) =>
        /\ ~result.err
        /\ result = step_mdp(tensordict, config)

\* the precomputed trees drive the call: the nested action comes from the root,
\* the observations and the reward from "next"
C8_Witness ==
    /\ Called
    /\ path = "fast"
    /\ env = EnvNested
    /\ MatchesDeclaration(tensordict)
    /\ ~config.exclude_action /\ ~config.exclude_reward /\ config.exclude_done
    /\ result.out =
          [agents |-> Node([action |-> Leaf(<<"agents", "action">>),
                            obs |-> Leaf(<<"next", "agents", "obs">>),
                            reward |-> Leaf(<<"next", "agents", "reward">>)]),
           obs |-> Leaf(<<"next", "obs">>)]

-----------------------------------------------------------------------------
-----------------------------------------------------------------------------
\* the flag, the counters and the branch of the last call agree
FlagInvariant ==
    /\ ncalls = 0 => self.validated = "None"
    /\ compared = (IF self.validated = "None" THEN 0 ELSE 1)
    /\ warnings = (IF self.validated = "False" THEN 1 ELSE 0)
    /\ (Called /\ HasNext(tensordict)) =>
          /\ self.validated # "None"
          /\ path = (IF self.validated = "True" THEN "fast" ELSE "fallback")
    /\ (Called /\ path = "fallback") => ~result.err

-----------------------------------------------------------------------------
(* step_mdp with a destination batch and with a stacked-variant input.     *)
(* A batch object is a plain TensorDict or a LazyStackedTensorDict, given  *)
(* by its member batches along the stack dimension (position i of the      *)
(* sequence is index i-1 along stack_dim).  The destination of a stacked   *)
(* input is itself a lazy stack with one member per input member, so that  *)
(* `next_tensordict.unbind(stack_dim)` yields its members.                 *)

MaxStack == 2

TensorDict(td) == [kind |-> "TensorDict", td |-> td, tensordicts |-> <<>>]
LazyStackedTensorDict(tds) == [kind |-> "LazyStackedTensorDict", td |-> EmptyTD, tensordicts |-> tds]

\* variant: the destination's own entries are dropped
UpdateReplaces(dest, src) == src

\* `dest.update(src)`: every entry of src is written into dest; a sub-batch of
\* src met where dest holds a sub-batch is merged into it recursively
RECURSIVE update(_, _)
update(dest, src) ==
    [k \in DOMAIN dest \cup DOMAIN src |->
        IF k \notin DOMAIN src
        THEN dest[k]
        ELSE IF k \in DOMAIN dest /\ is_tensor_collection(dest[k]) /\ is_tensor_collection(src[k])
        THEN Node(update(dest[k].td, src[k].td))
        ELSE src[k]]

\* outcome of a call: the object returned and the destination object afterwards
RaisedTo(ntd) == [err |-> TRUE, returned |-> "None", out |-> NoObject, next_tensordict |-> ntd]
ReturnedNew(out, ntd) == [err |-> FALSE, returned |-> "out", out |-> out, next_tensordict |-> ntd]
ReturnedDest(ntd) == [err |-> FALSE, returned |-> "next_tensordict", out |-> ntd, next_tensordict |-> ntd]

\* lines 369-399 on a plain TensorDict: `return next_tensordict.update(out)` when a
\* destination is given (update returns the object it was called on), `return out` otherwise
step_mdp_plain(td, ntd, cfg) ==
    LET r == step_mdp(td, cfg)
    IN  IF r.err
        THEN RaisedTo(ntd)
        ELSE IF ntd.kind # "None"
        THEN ReturnedDest(TensorDict(update(ntd.td, r.out)))
        ELSE ReturnedNew(TensorDict(r.out), ntd)

\* `next_tensordict.unbind(tensordict.stack_dim)`, or `[None] * len(tensordict.tensordicts)`
unbind(ntd, n) ==
    IF ntd.kind # "None"
    THEN [i \in 1..n |-> TensorDict(ntd.tensordicts[i])]
    ELSE [i \in 1..n |-> NoObject]

\* lines 342-367: the list comprehension calls step_mdp on each member with its slice of
\* the destination, in order; an exception of member j leaves the slices before j merged
step_mdp_stacked(tds, ntd, cfg) ==
    LET n == Len(tds)
        next_tensordicts == unbind(ntd, n)
        outs == [i \in 1..n |-> step_mdp_plain(tds[i], next_tensordicts[i], cfg)]
        failed == {i \in 1..n : outs[i].err}
        done == {i \in 1..n : \A j \in failed : i < j}
        out == LazyStackedTensorDict([i \in 1..n |-> outs[i].out.td])
    IN  IF failed # {}
        THEN RaisedTo(IF ntd.kind # "None"
                      THEN LazyStackedTensorDict(
                               [i \in 1..n |-> IF i \in done
                                               THEN outs[i].next_tensordict.td
                                               ELSE ntd.tensordicts[i]])
                      ELSE ntd)
        ELSE IF ntd.kind # "None"
        THEN ReturnedDest(LazyStackedTensorDict(
                 [i \in 1..n |-> update(outs[i].next_tensordict.td, out.tensordicts[i])]))
        ELSE ReturnedNew(out, ntd)

\* step_mdp(tensordict, next_tensordict=ntd, **cfg)
step_mdp_to(obj, ntd, cfg) ==
    IF obj.kind = "LazyStackedTensorDict"
    THEN step_mdp_stacked(obj.tensordicts, ntd, cfg)
    ELSE step_mdp_plain(obj.td, ntd, cfg)

\* a batch holding, at the leaf paths of td, the tensors of the object named `name`
RECURSIVE Relabel(_, _)
Relabel(td, name) ==
    [k \in DOMAIN td |->
        IF is_tensor_collection(td[k])
        THEN Node(Relabel(td[k].td, name))
        ELSE Leaf(<<name>> \o td[k].val)]

\* members of the input: with and without "next", flat and nested
MemberBatches ==
    {BatchOf({<<"next">>}, {<<"action">>} \cup r \cup n) :
        r \in {{}, {<<"obs">>, <<"agents", "obs">>}},
        n \in {{<<"next", "obs">>}, {<<"next", "obs">>, <<"next", "agents", "obs">>}}}
    \cup {BatchOf({}, {<<"action">>, <<"obs">>})}

\* members of the destination: entries the result overwrites and entries of its own
DestBatches ==
    {BatchOf({}, d) : d \in {{}, {<<"obs">>, <<"stale">>},
                             {<<"agents", "obs">>, <<"agents", "stale">>}}}

Member(i) == "td" \o ToString(i)
Slice(i) == "next_tensordict" \o ToString(i)

\* the input objects: a plain batch, or a lazy stack of 1..MaxStack members
PlainInputs == {TensorDict(Relabel(b, Member(1))) : b \in MemberBatches}
StackedInputs ==
    UNION {{LazyStackedTensorDict([i \in 1..n |-> Relabel(f[i], Member(i))]) :
               f \in [1..n -> MemberBatches]} : n \in 1..MaxStack}

\* the destinations fitting an input: None, or an object of the input's kind and length
DestsFor(obj) ==
    {NoObject} \cup
    IF obj.kind = "LazyStackedTensorDict"
    THEN {LazyStackedTensorDict([i \in 1..Len(obj.tensordicts) |-> Relabel(f[i], Slice(i))]) :
             f \in [1..Len(obj.tensordicts) -> DestBatches]}
    ELSE {TensorDict(Relabel(b, Slice(1))) : b \in DestBatches}

InitStepTo ==
    /\ op = "input"
    /\ tensordict \in PlainInputs \cup StackedInputs
    /\ next_tensordict \in DestsFor(tensordict)
    /\ config \in {ConfigOf(f, DefaultKeys) : f \in Flags}
    /\ result = Returned(EmptyTD)
    /\ returned = "None"
    /\ env = NoEnv
    /\ self = NoSelf
    /\ warnings = 0
    /\ compared = 0
    /\ path = "none"
    /\ ncalls = 0
    /\ eot_data = EmptyTD
    /\ tensordict_reset = EmptyTD

StepMdpTo ==
    /\ op = "input"
    /\ op' = "done"
    /\ LET r == step_mdp_to(tensordict, next_tensordict, config)
       IN  /\ result' = [err |-> r.err, out |-> r.out]
           /\ returned' = r.returned
           /\ next_tensordict' = r.next_tensordict
    /\ UNCHANGED <<tensordict, config, env, self, warnings, compared, path, ncalls,
                   eot_data, tensordict_reset>>

NextStepTo == StepMdpTo

SpecStepTo == InitStepTo /\ [][NextStepTo]_vars

-----------------------------------------------------------------------------
(* Vocabulary of the properties on step_mdp with a destination.            *)

\* the member batches of an object along the stack dimension
Members(obj) == IF obj.kind = "LazyStackedTensorDict" THEN obj.tensordicts ELSE <<obj.td>>

\* slice i of the destination after the call holds every entry computed for member i
\* and, elsewhere, what the slice held before the call
MergedInto(before, after, computed) ==
    /\ Leaves(after) = Leaves(before) \cup Leaves(computed)
    /\ \A p \in Leaves(computed) : GetPath(after, p) = GetPath(computed, p)
    /\ \A p \in Leaves(before) \ Leaves(computed) : GetPath(after, p) = GetPath(before, p)

(* C11: when step_mdp is given a destination batch, the object returned is *)
(* the destination itself, and each of its slices along the stack          *)
(* dimension (the whole batch for a plain input) holds the next-state      *)
(* entries computed for the corresponding member of the input merged into  *)
(* what the slice held; without a destination a new batch is returned that *)
(* holds the computed entries, member by member.                           *)
C11_DestinationReturned ==
    [][(StepMdpTo /\ ~result'.err) =>
        LET ins == Members(tensordict)
            computed == [i \in 1..Len(ins) |-> step_mdp(ins[i], config).out]
        IN  IF next_tensordict.kind # "None"
            THEN /\ returned' = "next_tensordict"
                 /\ result'.out = next_tensordict'
                 /\ next_tensordict'.kind = next_tensordict.kind
                 /\ Len(Members(next_tensordict')) = Len(ins)
                 /\ \A i \in 1..Len(ins) :
                       MergedInto(Members(next_tensordict)[i],
                                  Members(next_tensordict')[i], computed[i])
            ELSE /\ returned' = "out"
                 /\ next_tensordict' = next_tensordict
                 /\ result'.out.kind = tensordict.kind
                 /\ Members(result'.out) = computed]_vars

\* a stack of two members was stepped into a destination: slice 2 holds member 2's
\* next observation over its own, and keeps its own other entry
C11_Witness ==
    /\ op = "done"
    /\ ~result.err
    /\ returned = "next_tensordict"
    /\ tensordict.kind = "LazyStackedTensorDict"
    /\ Len(tensordict.tensordicts) = 2
    /\ LET s == next_tensordict.tensordicts[2]
       IN  /\ DOMAIN s = {"obs", "stale"}
           /\ s["obs"] = Leaf(<<"td2", "next", "obs">>)
           /\ s["stale"] = Leaf(<<"next_tensordict2", "stale">>)

(* C12: a call of step_mdp or of a _StepMDP instance on a batch without a  *)
(* "next" sub-batch raises: the instance's call ends in an error with no   *)
(* result batch, and so does step_mdp on the same batch with the same      *)
(* arguments.                                                              *)
C12_MissingNextRaises ==
    (op \in {"done", "called"} /\ ~HasNext(tensordict)) =>
        /\ result = Raised
        /\ step_mdp(tensordict, config) = Raised

\* an instance that has already stepped a batch is called on one without "next"
C12_Witness ==
    /\ Called
    /\ ncalls >= 2
    /\ self.validated # "None"
    /\ ~HasNext(tensordict)
    /\ DOMAIN tensordict # {}
    /\ result.err

-----------------------------------------------------------------------------
(* The episode-boundary aggregators: _terminated_or_truncated (private)    *)
(* and terminated_or_truncated (public).                                   *)
(*                                                                         *)
(* A done / terminated / truncated entry is a boolean tensor over the      *)
(* batch: one boolean per batch element, with or without a trailing        *)
(* singleton dimension beyond the batch dimensions.  The leaves of the     *)
(* input batches follow the environments' convention and carry the         *)
(* trailing dimension, so does the all-false tensor that stands for a leaf *)
(* the schema declares and the batch lacks.  A schema (full_done_spec) is  *)
(* a tree of names: a leaf spec or a nested CompositeSpec.  The loops over *)
(* items() only accumulate with `|` and write one key per node, so their   *)
(* iteration order is not modelled.                                        *)

BatchSize == 2

\* a boolean tensor: `trailing` says aggregate.ndim > data.ndim
BoolTensor(trailing, v) == [trailing |-> trailing, v |-> v]

\* torch.zeros of data's shape plus a trailing singleton dimension, dtype bool
zeros == BoolTensor(TRUE, [i \in 1..BatchSize |-> FALSE])

\* variant: the aggregate is the conjunction of the leaves
AndAll(stops) ==
    BoolTensor(\E t \in stops : t.trailing,
               [i \in 1..BatchSize |-> \A t \in stops : t.v[i]])

\* `aggregate = False; aggregate = aggregate | stop` over the leaves of a node
OrAll(stops) ==
    BoolTensor(\E t \in stops : t.trailing,
               [i \in 1..BatchSize |-> \E t \in stops : t.v[i]])

\* aggregate.any()
any(t) == \E i \in 1..BatchSize : t.v[i]

\* aggregate.squeeze(-1)
squeeze(t) == BoolTensor(FALSE, t.v)

\* key=None, key="_reset"
NoKey == [none |-> TRUE, name |-> ""]
Key(name) == [none |-> FALSE, name |-> name]

\* full_done_spec=None, full_done_spec=CompositeSpec(...)
NoSpec == [none |-> TRUE, spec |-> <<>>]
Spec(composite) == [none |-> FALSE, spec |-> composite]
LeafSpec == Leaf(<<"spec">>)

\* isinstance(item, CompositeSpec)
IsCompositeSpec(item) == item.tag = "td"

\* ("terminated", "truncated", "done")
EotNames == {"terminated", "truncated", "done"}

\* data.exclude of every key of list_of_keys, inplace=True
RECURSIVE exclude(_, _)
exclude(td, list_of_keys) ==
    [k \in {j \in DOMAIN td : <<j>> \notin list_of_keys} |->
        IF is_tensor_collection(td[k])
        THEN Node(exclude(td[k].td,
                          {Tail(p) : p \in {q \in list_of_keys : Len(q) > 1 /\ q[1] = k}}))
        ELSE td[k]]

\* variant: what the nested calls wrote is lost
WithSubsUnchanged(data, sub) == data

\* the sub-batches of data replaced by what the nested calls left in them
WithSubs(data, sub) ==
    [k \in DOMAIN data |-> IF k \in DOMAIN sub THEN Node(sub[k].data) ELSE data[k]]

SubKeys(sub) == UNION {sub[k].list_of_keys : k \in DOMAIN sub}

\* variant: key=None writes under the default key
PrivateWriteDefaultKey(data, stops, key, curr_done_key, any_eot, list_of_keys) ==
    IF stops = {}
    THEN [any_eot |-> any_eot, data |-> data, list_of_keys |-> list_of_keys]
    ELSE LET squeezed == squeeze(OrAll(stops))
         IN  [any_eot |-> any_eot \/ any(squeezed),
              data |-> SetStr(data, "_reset", Leaf(squeezed)),
              list_of_keys |-> list_of_keys]

\* lines 1019-1028: `if aggregate is not None:` squeeze, data.set(key, aggregate),
\* list_of_keys.append, any_eot | aggregate.any()
PrivateWrite(data, stops, key, curr_done_key, any_eot, list_of_keys) ==
    IF stops = {}
    THEN [any_eot |-> any_eot, data |-> data, list_of_keys |-> list_of_keys]
    ELSE LET aggregate == OrAll(stops)
             squeezed == IF aggregate.trailing THEN squeeze(aggregate) ELSE aggregate
         IN  IF key.none
             THEN [any_eot |-> any_eot \/ any(aggregate), data |-> data,
                   list_of_keys |-> list_of_keys]
             ELSE [any_eot |-> any_eot \/ any(squeezed),
                   data |-> SetStr(data, key.name, Leaf(squeezed)),
                   list_of_keys |-> list_of_keys \cup {curr_done_key \o <<key.name>>}]

\* lines 1142-1147: data.set(key, aggregate), list_of_keys.append, any_eot | aggregate.any()
PublicWrite(data, stops, key, curr_done_key, any_eot, list_of_keys) ==
    IF stops = {}
    THEN [any_eot |-> any_eot, data |-> data, list_of_keys |-> list_of_keys]
    ELSE LET aggregate == OrAll(stops)
         IN  [any_eot |-> any_eot \/ any(aggregate),
              data |-> IF key.none THEN data ELSE SetStr(data, key.name, Leaf(aggregate)),
              list_of_keys |-> IF key.none THEN list_of_keys
                               ELSE list_of_keys \cup {curr_done_key \o <<key.name>>}]

\* the leaves of a node in schema mode: data.get(eot_key, None), zeros when None
SchemaStops(data, composite) ==
    {IF is_tensor_collection(GetStr(data, k)) \/ GetStr(data, k) = None
     THEN zeros ELSE data[k].val : k \in {j \in DOMAIN composite : ~IsCompositeSpec(composite[j])}}

\* _terminated_or_truncated.inner_terminated_or_truncated (lines 965-1028): the nested
\* results are or-ed into any_eot only `if not found_leaf`
RECURSIVE _inner_terminated_or_truncated(_, _, _, _)
_inner_terminated_or_truncated(data, full_done_spec, key, curr_done_key) ==
    IF full_done_spec.none
    THEN LET leaves == (DOMAIN data) \cap EotNames
             tds == {k \in (DOMAIN data) \ EotNames : is_tensor_collection(data[k])}
             sub == [k \in tds |->
                        _inner_terminated_or_truncated(data[k].td, NoSpec, key,
                                                       curr_done_key \o <<k>>)]
             any_eot == leaves = {} /\ \E k \in tds : sub[k].any_eot
         IN  PrivateWrite(WithSubs(data, sub), {data[k].val : k \in leaves}, key,
                          curr_done_key, any_eot, SubKeys(sub))
    ELSE LET spec == full_done_spec.spec
             composite_spec == {k \in DOMAIN spec : IsCompositeSpec(spec[k])}
             found_leaf == (DOMAIN spec) \ composite_spec
             sub == [k \in composite_spec |->
                        _inner_terminated_or_truncated(data[k].td, Spec(spec[k].td), key,
                                                       curr_done_key \o <<k>>)]
             any_eot == found_leaf = {} /\ \E k \in composite_spec : sub[k].any_eot
         IN  PrivateWrite(WithSubs(data, sub), SchemaStops(data, spec), key,
                          curr_done_key, any_eot, SubKeys(sub))

\* variant: the public routine with the private routine's precedence
InnerWithPrecedence(data, full_done_spec, key, curr_done_key) ==
    _inner_terminated_or_truncated(data, full_done_spec, key, curr_done_key)

\* terminated_or_truncated.inner_terminated_or_truncated (lines 1094-1147): the nested
\* results are always or-ed into any_eot
RECURSIVE inner_terminated_or_truncated(_, _, _, _)
inner_terminated_or_truncated(data, full_done_spec, key, curr_done_key) ==
    IF full_done_spec.none
    THEN LET leaves == (DOMAIN data) \cap EotNames
             tds == {k \in (DOMAIN data) \ EotNames : is_tensor_collection(data[k])}
             sub == [k \in tds |->
                        inner_terminated_or_truncated(data[k].td, NoSpec, key,
                                                      curr_done_key \o <<k>>)]
             any_eot == \E k \in tds : sub[k].any_eot
         IN  PublicWrite(WithSubs(data, sub), {data[k].val : k \in leaves}, key,
                         curr_done_key, any_eot, SubKeys(sub))
    ELSE LET spec == full_done_spec.spec
             composite_spec == {k \in DOMAIN spec : IsCompositeSpec(spec[k])}
             sub == [k \in composite_spec |->
                        inner_terminated_or_truncated(data[k].td, Spec(spec[k].td), key,
                                                      curr_done_key \o <<k>>)]
             any_eot == \E k \in composite_spec : sub[k].any_eot
         IN  PublicWrite(WithSubs(data, sub), SchemaStops(data, spec), key,
                         curr_done_key, any_eot, SubKeys(sub))

\* lines 1030-1034 and 1149-1153: `if not any_eot and not write_full_false:` remove the
\* keys written; return any_eot
Cleanup(r, write_full_false) ==
    [any_eot |-> r.any_eot,
     data |-> IF ~r.any_eot /\ ~write_full_false
              THEN exclude(r.data, r.list_of_keys)
              ELSE r.data]

_terminated_or_truncated(data, full_done_spec, key, write_full_false) ==
    Cleanup(_inner_terminated_or_truncated(data, full_done_spec, key, <<>>), write_full_false)

terminated_or_truncated(data, full_done_spec, key, write_full_false) ==
    Cleanup(inner_terminated_or_truncated(data, full_done_spec, key, <<>>), write_full_false)

-----------------------------------------------------------------------------
(* Inputs of the aggregators: a root node and an optional nested node      *)
(* "agents", each with an observation, any of its terminal leaves, and     *)
(* possibly an entry already stored under the destination key.             *)

\* the values of a terminal leaf: all false, or true for one batch element
LeafValues ==
    {BoolTensor(TRUE, [i \in 1..BatchSize |-> FALSE])}
    \cup {BoolTensor(TRUE, [i \in 1..BatchSize |-> i = j]) : j \in 1..BatchSize}

Absent == BoolTensor(FALSE, <<>>)

\* a tensor stored under the destination key before the call
StoredReset(curr_done_key) ==
    Leaf([trailing |-> FALSE, v |-> [i \in 1..BatchSize |-> FALSE], stored |-> curr_done_key])

\* the nodes with the terminal leaves `names`, any subset of them present
NodesOf(names, curr_done_key) ==
    {[k \in {n \in names : f[n] # Absent} \cup {"obs"} \cup (IF stored THEN {"_reset"} ELSE {}) |->
         IF k = "obs" THEN Leaf(curr_done_key \o <<"obs">>)
         ELSE IF k = "_reset" THEN StoredReset(curr_done_key)
         ELSE Leaf(f[k])] :
        f \in [names -> LeafValues \cup {Absent}], stored \in BOOLEAN}

RootNodes == NodesOf({"done", "terminated"}, <<>>)
AgentsNodes == NodesOf({"done", "truncated"}, <<"agents">>)

DataBatches == RootNodes \cup {SetStr(r, "agents", Node(a)) : r \in RootNodes, a \in AgentsNodes}

\* the schemas: flat and nested, with and without leaves at the root
Schemas ==
    {[done |-> LeafSpec],
     [done |-> LeafSpec, terminated |-> LeafSpec],
     [done |-> LeafSpec, agents |-> Node([done |-> LeafSpec])],
     [done |-> LeafSpec, terminated |-> LeafSpec,
      agents |-> Node([done |-> LeafSpec, truncated |-> LeafSpec])],
     [agents |-> Node([done |-> LeafSpec])]}

\* data holds every sub-batch the schema declares (data.get(eot_key) of lines 1011 and
\* 1128 has no default)
RECURSIVE Declares(_, _)
Declares(data, composite) ==
    \A k \in DOMAIN composite :
        IsCompositeSpec(composite[k]) =>
            /\ is_tensor_collection(GetStr(data, k))
            /\ Declares(data[k].td, composite[k].td)

DataFor(full_done_spec) ==
    IF full_done_spec.none
    THEN DataBatches
    ELSE {d \in DataBatches : Declares(d, full_done_spec.spec)}

AggregatorConfigs ==
    [routine : {"_terminated_or_truncated", "terminated_or_truncated"},
     full_done_spec : {NoSpec} \cup {Spec(c) : c \in Schemas},
     key : {NoKey, Key("_reset")},
     write_full_false : BOOLEAN]

NoOutcome == [any_eot |-> FALSE]

InitAggregate ==
    /\ op = "input"
    /\ config \in AggregatorConfigs
    /\ tensordict \in DataFor(config.full_done_spec)
    /\ eot_data = tensordict
    /\ result = NoOutcome
    /\ next_tensordict = NoObject
    /\ returned = "None"
    /\ env = NoEnv
    /\ self = NoSelf
    /\ warnings = 0
    /\ compared = 0
    /\ path = "none"
    /\ ncalls = 0
    /\ tensordict_reset = EmptyTD

\* one call of either routine on the object eot_data
Aggregate ==
    /\ op = "input"
    /\ op' = "done"
    /\ LET r == IF config.routine = "_terminated_or_truncated"
                THEN _terminated_or_truncated(eot_data, config.full_done_spec, config.key,
                                              config.write_full_false)
                ELSE terminated_or_truncated(eot_data, config.full_done_spec, config.key,
                                             config.write_full_false)
       IN  /\ eot_data' = r.data
           /\ result' = [any_eot |-> r.any_eot]
    /\ UNCHANGED <<tensordict, config, env, self, warnings, compared, path, ncalls,
                   next_tensordict, returned, tensordict_reset>>

NextAggregate == Aggregate

SpecAggregate == InitAggregate /\ [][NextAggregate]_vars

-----------------------------------------------------------------------------
(* Vocabulary of the properties on the aggregators.                        *)

Aggregated == op = "done"
Private == config.routine = "_terminated_or_truncated"
Public == config.routine = "terminated_or_truncated"

\* the nodes of a tree, as paths from the root
NodePaths(td) == {<<>>} \cup {p \in AllPaths(td) : is_tensor_collection(GetPath(td, p))}
NodeAt(td, p) == IF p = <<>> THEN td ELSE GetPath(td, p).td

\* the nodes the mode looks at: every sub-batch, or every composite of the schema
TerminalNodes(td, fds) == IF fds.none THEN NodePaths(td) ELSE NodePaths(fds.spec)

\* the terminal leaves of a node: entries named done / terminated / truncated, or the
\* leaves the schema declares at that node
TerminalNames(td, fds, p) ==
    IF fds.none
    THEN (DOMAIN NodeAt(td, p)) \cap {"done", "terminated", "truncated"}
    ELSE {k \in DOMAIN NodeAt(fds.spec, p) : NodeAt(fds.spec, p)[k].tag = "leaf"}

\* terminal leaf k of node p is true for batch element i
LeafTrue(td, p, k, i) == k \in DOMAIN NodeAt(td, p) /\ NodeAt(td, p)[k].val.v[i]

AnyLeafTrue(td, fds) ==
    \E p \in TerminalNodes(td, fds) : \E k \in TerminalNames(td, fds, p) :
        \E i \in 1..BatchSize : LeafTrue(td, p, k, i)

\* the elementwise OR of the direct terminal leaves of node p
OwnOr(td, fds, p) ==
    [i \in 1..BatchSize |-> \E k \in TerminalNames(td, fds, p) : LeafTrue(td, p, k, i)]

\* the nodes of td holding an entry under "_reset"
ResetHolders(td) == {p \in NodePaths(td) : "_reset" \in DOMAIN NodeAt(td, p)}

(* C13: terminated_or_truncated, with and without a schema, returns true   *)
(* iff some terminal leaf of some node is true for some batch element,     *)
(* also when the leaves of the parent node are all false and the true leaf *)
(* is in a nested node.  (In schema mode the terminal leaves are the ones  *)
(* the schema declares.)                                                   *)
C13_PublicAnyLeaf ==
    (Aggregated /\ Public) =>
        (result.any_eot <=> AnyLeafTrue(tensordict, config.full_done_spec))

\* schema mode: the root's declared leaves are false, a leaf of the nested node is true
C13_Witness ==
    /\ Aggregated
    /\ Public
    /\ ~config.full_done_spec.none
    /\ {"done", "terminated"} \subseteq DOMAIN tensordict
    /\ ~\E i \in 1..BatchSize : LeafTrue(tensordict, <<>>, "done", i)
                                   \/ LeafTrue(tensordict, <<>>, "terminated", i)
    /\ "agents" \in DOMAIN config.full_done_spec.spec
    /\ LeafTrue(tensordict, <<"agents">>, "done", 1)
    /\ result.any_eot

(* C14 (as claimed): _terminated_or_truncated, with and without a schema,  *)
(* returns true iff some terminal leaf of some node is true, also when the *)
(* parent node holds terminal leaves that are all false and a leaf of a    *)
(* nested node is true.                                                    *)
C14_PrivateAnyLeaf ==
    (Aggregated /\ Private) =>
        (result.any_eot <=> AnyLeafTrue(tensordict, config.full_done_spec))

(* C15 (as claimed): for both routines, on a batch holding no entry under  *)
(* the destination key: when the call returns false and write_full_false   *)
(* is false the batch is exactly what it was before the call, with no      *)
(* destination key at any node; when the call returns false and            *)
(* write_full_false is true every node with terminal leaves holds an       *)
(* all-false tensor under the destination key.                             *)
C15_FalseResultFrame ==
    (Aggregated /\ ~result.any_eot /\ ResetHolders(tensordict) = {}) =>
        IF ~config.write_full_false
        THEN eot_data = tensordict /\ ResetHolders(eot_data) = {}
        ELSE ~config.key.none =>
                \A p \in TerminalNodes(tensordict, config.full_done_spec) :
                    TerminalNames(tensordict, config.full_done_spec, p) # {} =>
                        /\ "_reset" \in DOMAIN NodeAt(eot_data, p)
                        /\ \A i \in 1..BatchSize : ~NodeAt(eot_data, p)["_reset"].val.v[i]

\* a parent and a nested node both hold (or are declared to hold) a done leaf that is
\* true, and nothing is stored under the destination key
BothDone ==
    /\ Aggregated
    /\ ~config.key.none
    /\ ResetHolders(tensordict) = {}
    /\ <<"agents">> \in TerminalNodes(tensordict, config.full_done_spec)
    /\ "done" \in TerminalNames(tensordict, config.full_done_spec, <<>>)
    /\ "done" \in TerminalNames(tensordict, config.full_done_spec, <<"agents">>)
    /\ \E i \in 1..BatchSize : LeafTrue(tensordict, <<>>, "done", i)
    /\ \E i \in 1..BatchSize : LeafTrue(tensordict, <<"agents">>, "done", i)

(* C16 (as claimed): when a node holds a done leaf that is true and a      *)
(* nested node holds a done leaf that is true, one destination key is      *)
(* written, at the parent, and none at the nested node.                    *)
C16_SingleWriteAtParent ==
    BothDone => ResetHolders(eot_data) = {<<>>}

(* C16 (amended): in that case the destination key is written at both      *)
(* nodes, and each holds the elementwise OR of its own node's leaves.      *)
C16_WriteAtBothNodes ==
    BothDone =>
        /\ ResetHolders(eot_data) = {<<>>, <<"agents">>}
        /\ \A p \in {<<>>, <<"agents">>} :
              NodeAt(eot_data, p)["_reset"].val.v
                  = OwnOr(tensordict, config.full_done_spec, p)

\* the docstring example: done true at the root, truncated true in the nested node
C16_Witness ==
    /\ BothDone
    /\ Private
    /\ ~config.full_done_spec.none
    /\ LeafTrue(tensordict, <<>>, "done", 1)
    /\ LeafTrue(tensordict, <<"agents">>, "truncated", 2)
    /\ LeafTrue(tensordict, <<"agents">>, "done", 1)
    /\ eot_data["agents"].td["_reset"].val.v = [i \in 1..BatchSize |-> i \in {1, 2}]
    /\ eot_data["_reset"].val.v = [i \in 1..BatchSize |-> i = 1]

C18_NoKeyNoWrite ==
    (Aggregated /\ config.key.none) => eot_data = tensordict

\* key=None on a batch with a true leaf and with a false one
C18_Witness ==
    /\ Aggregated
    /\ config.key.none
    /\ Private
    /\ config.write_full_false
    /\ result.any_eot
    /\ "agents" \in DOMAIN tensordict
    /\ LeafTrue(tensordict, <<"agents">>, "done", 1)
    /\ "terminated" \in DOMAIN tensordict

(* C19 (as claimed): a value already stored under the destination key at a *)
(* node prevails: after the call the node still holds that value under the *)
(* key.                                                                    *)
C19_StoredValuePrevails ==
    (Aggregated /\ ~config.key.none) =>
        \A p \in ResetHolders(tensordict) :
            /\ p \in ResetHolders(eot_data)
            /\ NodeAt(eot_data, p)["_reset"] = NodeAt(tensordict, p)["_reset"]

-----------------------------------------------------------------------------
(* _update_during_reset: merge the post-reset batch into the current batch *)
(* under the reset signals named by reset_keys.                            *)
(*                                                                         *)
(* Every node has the batch size of the root.  A data tensor is modelled   *)
(* by the origin of each of its batch elements: "tensordict" (the current  *)
(* batch), "tensordict_reset" (the post-reset batch) or "pad" (the pad     *)
(* value 0 of where).  A reset signal is a boolean tensor, with a trailing *)
(* singleton dimension that lines 1256-1259 flatten away.                  *)

MaxResetKeys == 2

\* tensordict.get(path, None), () being the batch itself
RECURSIVE GetOrNone(_, _)
GetOrNone(td, p) ==
    IF p = <<>> THEN Node(td)
    ELSE IF p[1] \notin DOMAIN td THEN None
    ELSE IF Len(p) = 1 THEN td[p[1]]
    ELSE IF is_tensor_collection(td[p[1]]) THEN GetOrNone(td[p[1]].td, Tail(p))
    ELSE None

\* the batch with the sub-batch at node_key replaced (the in-place writes into `node`)
WithNode(td, node_key, node) ==
    IF node_key = <<>> THEN node ELSE SetPath(td, node_key, Node(node))

\* reset.all()
all(reset) == \A i \in 1..BatchSize : reset.v[i]

\* lines 1256-1259: reset.flatten(node.ndim, reset.ndim - 1).any(-1).reshape(node.shape)
FlattenAny(reset) == BoolTensor(FALSE, reset.v)

\* the pad value 0 in an entry's dtype: False in a reset signal
Pad(k) == IF k = "_reset" THEN FALSE ELSE "pad"

\* variant: the mask is applied inverted
WhereLeafInverted(reset, k, value, other) ==
    LET padded == [trailing |-> IF value # None THEN value.val.trailing ELSE other.val.trailing,
                   v |-> [i \in 1..BatchSize |-> Pad(k)]]
        a == IF value # None THEN value.val ELSE padded
        b == IF other # None THEN other.val ELSE padded
    IN  Leaf([trailing |-> a.trailing,
              v |-> [i \in 1..BatchSize |-> IF reset.v[i] THEN a.v[i] ELSE b.v[i]]])

\* torch.where(~reset, value, other) on the entry k; a missing side is padded
WhereLeaf(reset, k, value, other) ==
    LET padded == [trailing |-> IF value # None THEN value.val.trailing ELSE other.val.trailing,
                   v |-> [i \in 1..BatchSize |-> Pad(k)]]
        a == IF value # None THEN value.val ELSE padded
        b == IF other # None THEN other.val ELSE padded
    IN  Leaf([trailing |-> a.trailing,
              v |-> [i \in 1..BatchSize |-> IF reset.v[i] THEN b.v[i] ELSE a.v[i]]])

\* node.where(~reset, other=node_reset, out=node, pad=0): every entry of either batch,
\* element by element from node_reset where reset is true and from node elsewhere
RECURSIVE where(_, _, _)
where(reset, node, node_reset) ==
    [k \in DOMAIN node \cup DOMAIN node_reset |->
        LET value == GetStr(node, k)
            other == GetStr(node_reset, k)
        IN  IF is_tensor_collection(value) \/ is_tensor_collection(other)
            THEN Node(where(reset,
                            IF is_tensor_collection(value) THEN value.td ELSE EmptyTD,
                            IF is_tensor_collection(other) THEN other.td ELSE EmptyTD))
            ELSE WhereLeaf(reset, k, value, other)]

\* variant: any node updated before shadows every later reset key
ProcessedByAny(reset_key_tuple, roots) == roots # {}

\* variant: a node updated before also shadows the reset keys of its ancestors
ProcessedEitherWay(reset_key_tuple, roots) ==
    \E x \in roots :
        \/ /\ Len(x) <= Len(reset_key_tuple)
           /\ SubSeq(reset_key_tuple, 1, Len(x)) = x
        \/ /\ Len(reset_key_tuple) - 1 <= Len(x)
           /\ SubSeq(x, 1, Len(reset_key_tuple) - 1)
                  = SubSeq(reset_key_tuple, 1, Len(reset_key_tuple) - 1)

\* `any(reset_key_tuple[: len(x)] == x for x in roots)`
Processed(reset_key_tuple, roots) ==
    \E x \in roots :
        /\ Len(x) <= Len(reset_key_tuple)
        /\ SubSeq(reset_key_tuple, 1, Len(x)) = x

\* lines 1243-1261 for one reset key that is not ignored: the new contents of `node`
MergeNode(reset, node, node_reset) ==
    IF reset = None \/ all(reset.val)
    THEN update(node, node_reset)
    ELSE where(IF reset.val.trailing THEN FlattenAny(reset.val) ELSE reset.val,
               node, node_reset)

\* the loop of lines 1219-1261 from position i of reset_keys on
RECURSIVE ResetFrom(_, _, _, _, _)

\* variant: the signal of an ignored reset key stays in the batch
ResetFromKeepingIgnored(td_reset, td, reset_keys, i, roots) ==
    IF i > Len(reset_keys)
    THEN td
    ELSE LET reset_key_tuple == reset_keys[i].path
             node_key == SubSeq(reset_key_tuple, 1, Len(reset_key_tuple) - 1)
             node_reset == GetOrNone(td_reset, node_key).td
             reset == GetOrNone(td, reset_key_tuple)
             popped == exclude(td, {reset_key_tuple})
             node == GetOrNone(popped, node_key).td
         IN  IF Processed(reset_key_tuple, roots)
             THEN ResetFrom(td_reset, td, reset_keys, i + 1, roots \cup {node_key})
             ELSE ResetFrom(td_reset,
                            WithNode(popped, node_key, MergeNode(reset, node, node_reset)),
                            reset_keys, i + 1, roots \cup {node_key})

ResetFrom(td_reset, td, reset_keys, i, roots) ==
    IF i > Len(reset_keys)
    THEN td
    ELSE LET reset_key == reset_keys[i]
             reset_key_tuple == reset_key.path
             node_key == SubSeq(reset_key_tuple, 1, Len(reset_key_tuple) - 1)
             node_reset == GetOrNone(td_reset, node_key).td
             reset == GetOrNone(td, reset_key_tuple)
             popped == exclude(td, {reset_key_tuple})
             node == GetOrNone(popped, node_key).td
         IN  IF Processed(reset_key_tuple, roots)
             THEN ResetFrom(td_reset, popped, reset_keys, i + 1, roots \cup {node_key})
             ELSE ResetFrom(td_reset,
                            WithNode(popped, node_key, MergeNode(reset, node, node_reset)),
                            reset_keys, i + 1, roots \cup {node_key})

_update_during_reset(td_reset, td, reset_keys) ==
    ResetFrom(td_reset, td, reset_keys, 1, {})

\* the nodes of the batches given to _update_during_reset
ResetNodes == {<<>>, <<"agents">>, <<"agents", "sub">>, <<"other">>}

\* a data tensor all of whose elements come from the batch `origin`
DataFrom(origin) == Leaf([trailing |-> FALSE, v |-> [i \in 1..BatchSize |-> origin]])

\* a batch with an observation at every node, and an entry of its own at the nodes `own`
BatchFrom(origin, own) ==
    LET node(p) == [k \in {"obs"} \cup (IF p \in own THEN {"only_" \o origin} ELSE {}) |->
                        DataFrom(origin)]
    IN  SetStr(SetStr(node(<<>>), "other", Node(node(<<"other">>))),
               "agents",
               Node(SetStr(node(<<"agents">>), "sub", Node(node(<<"agents", "sub">>)))))

\* the values of a reset signal: all false, true for one element, all true
ResetValues == LeafValues \cup {BoolTensor(TRUE, [i \in 1..BatchSize |-> TRUE])}

\* the current batch with the reset signals `signal` stored at their nodes
RECURSIVE WithSignals(_, _, _)
WithSignals(td, signal, nodes) ==
    IF nodes = {}
    THEN td
    ELSE LET p == CHOOSE q \in nodes : TRUE
             rest == WithSignals(td, signal, nodes \ {p})
         IN  IF signal[p] = Absent
             THEN rest
             ELSE WithNode(rest, p, SetStr(GetOrNone(rest, p).td, "_reset", Leaf(signal[p])))

CurrentBatches ==
    {WithSignals(BatchFrom("tensordict", own), signal, ResetNodes) :
        own \in {{}, {<<"agents">>}},
        signal \in [ResetNodes -> ResetValues \cup {Absent}]}

\* the reset signal a post-reset batch may hold at its root: false everywhere
ResetOfReset ==
    Leaf([trailing |-> FALSE, v |-> [i \in 1..BatchSize |-> FALSE], stored |-> "tensordict_reset"])

PostResetBatches ==
    {BatchFrom("tensordict_reset", own) : own \in {{}, {<<"agents">>}}}
        \cup {SetStr(BatchFrom("tensordict_reset", {}), "_reset", ResetOfReset)}

\* the reset key of a node, in canonical form
ResetKeyOf(p) == unravel_key(TupleKey(p \o <<"_reset">>))

\* the lists of up to MaxResetKeys distinct reset keys, in any order
ResetKeyLists ==
    UNION {{[i \in 1..n |-> ResetKeyOf(f[i])] :
               f \in {g \in [1..n -> ResetNodes] :
                         \A i, j \in 1..n : i # j => g[i] # g[j]}} :
           n \in 1..MaxResetKeys}

InitReset ==
    /\ op = "input"
    /\ tensordict \in CurrentBatches
    /\ tensordict_reset \in PostResetBatches
    /\ config \in {[reset_keys |-> l] : l \in ResetKeyLists}
    /\ result = Returned(EmptyTD)
    /\ eot_data = EmptyTD
    /\ next_tensordict = NoObject
    /\ returned = "None"
    /\ env = NoEnv
    /\ self = NoSelf
    /\ warnings = 0
    /\ compared = 0
    /\ path = "none"
    /\ ncalls = 0

\* one call; the batch returned is the current batch object, updated in place (line 1262):
\* `tensordict` keeps the batch as it was given, result.out is the object afterwards
UpdateDuringReset ==
    /\ op = "input"
    /\ op' = "done"
    /\ result' = Returned(_update_during_reset(tensordict_reset, tensordict, config.reset_keys))
    /\ returned' = "tensordict"
    /\ UNCHANGED <<tensordict, config, env, self, warnings, compared, path, ncalls,
                   next_tensordict, eot_data, tensordict_reset>>

NextReset == UpdateDuringReset

SpecReset == InitReset /\ [][NextReset]_vars

-----------------------------------------------------------------------------
(* Vocabulary of the properties on _update_during_reset.                   *)

ResetDone == op = "done"

\* the node owning reset key number i, and the signal the current batch holds for it
OwnerOf(i) == SubSeq(config.reset_keys[i].path, 1, Len(config.reset_keys[i].path) - 1)
SignalOf(i) == GetOrNone(tensordict, config.reset_keys[i].path)

\* an earlier reset key of the list belongs to the node itself or to one of its ancestors
Covered(i) ==
    \E j \in 1..(i - 1) :
        /\ Len(OwnerOf(j)) <= Len(OwnerOf(i))
        /\ SubSeq(OwnerOf(i), 1, Len(OwnerOf(j))) = OwnerOf(j)

\* the signal of reset key i is absent or true for every element
FullReset(i) == SignalOf(i) = None \/ \A e \in 1..BatchSize : SignalOf(i).val.v[e]

(* C20: for a reset key whose signal is absent from the current batch or   *)
(* true for every element, and whose node is not covered by an earlier     *)
(* reset key of an ancestor, the owning node is replaced wholesale: after  *)
(* the call every entry of the post-reset node is in the current node with *)
(* the post-reset value.                                                   *)
C20_WholesaleReplace ==
    ResetDone =>
        \A i \in 1..Len(config.reset_keys) :
            (FullReset(i) /\ ~Covered(i)) =>
                LET node_reset == NodeAt(tensordict_reset, OwnerOf(i))
                    node == NodeAt(result.out, OwnerOf(i))
                IN  \A p \in Leaves(node_reset) :
                        /\ p \in Leaves(node)
                        /\ GetPath(node, p) = GetPath(node_reset, p)

\* the second key of the list, of a sibling node of the first, has an all-true signal;
\* its node holds the post-reset entries, one of them new to the current batch
C20_Witness ==
    /\ ResetDone
    /\ Len(config.reset_keys) = 2
    /\ OwnerOf(1) = <<"other">>
    /\ OwnerOf(2) = <<"agents">>
    /\ SignalOf(2) # None
    /\ FullReset(2)
    /\ "only_tensordict_reset" \in DOMAIN tensordict_reset["agents"].td
    /\ result.out["agents"].td["only_tensordict_reset"] = DataFrom("tensordict_reset")
    /\ result.out["agents"].td["obs"] = DataFrom("tensordict_reset")
    /\ "_reset" \notin DOMAIN result.out["agents"].td

\* the signal of reset key i is true for some elements and false for others
MixedReset(i) ==
    /\ SignalOf(i) # None
    /\ \E e \in 1..BatchSize : SignalOf(i).val.v[e]
    /\ \E e \in 1..BatchSize : ~SignalOf(i).val.v[e]

\* no other listed reset key belongs to an ancestor or to a descendant of key i's node
Alone(i) ==
    \A j \in 1..Len(config.reset_keys) :
        j # i =>
            LET n == IF Len(OwnerOf(j)) <= Len(OwnerOf(i)) THEN Len(OwnerOf(j)) ELSE Len(OwnerOf(i))
            IN  SubSeq(OwnerOf(i), 1, n) # SubSeq(OwnerOf(j), 1, n)

-----------------------------------------------------------------------------
(* _aggregate_end_of_traj: bring the reset signals of a batch to one       *)
(* boolean tensor of the batch's shape.  It is called with reset_keys or   *)
(* with neither key list (done_keys is None: the derivation of line 1167   *)
(* goes through torchrl._utils._replace_last and is not taken).  Every     *)
(* node has the batch size of the root; a signal's trailing dimension is   *)
(* what `local_reset.ndim > n` sees.                                       *)

\* PARTIAL_MISSING_ERR
PARTIAL_MISSING_ERR == "Some reset keys were present but not all."

\* the Python False of line 1169 and the 0-dim torch.tensor(False) of line 1189: each
\* broadcasts against a signal
PyFalse == [trailing |-> FALSE, v |-> [i \in 1..BatchSize |-> FALSE], scalar |-> "bool"]
TensorFalse == [trailing |-> FALSE, v |-> [i \in 1..BatchSize |-> FALSE], scalar |-> "tensor"]

\* torch.ones(batch_size, dtype=torch.bool)
ones == BoolTensor(FALSE, [i \in 1..BatchSize |-> TRUE])

\* reset | local_reset, after `local_reset.flatten(n, local_reset.ndim - 1).any(-1)`
\* when local_reset.ndim > n
OrReset(reset, local_reset) ==
    LET collapsed == IF local_reset.trailing THEN FlattenAny(local_reset) ELSE local_reset
    IN  BoolTensor(FALSE, [i \in 1..BatchSize |-> reset.v[i] \/ collapsed.v[i]])

NoReset == [list |-> <<>>, none |-> TRUE]
ResetKeys(list) == [list |-> list, none |-> FALSE]

EndOfTraj(reset) == [err |-> FALSE, msg |-> "", reset |-> reset]
EndOfTrajError(msg) == [err |-> TRUE, msg |-> msg, reset |-> PyFalse]

\* variant: partial presence is no error, a missing key gives the all-true result
KeysFromLax(data, reset_keys, i, reset, has_missing) ==
    EndOfTraj(IF \E j \in 1..Len(reset_keys) : GetOrNone(data, reset_keys[j].path) = None
              THEN ones
              ELSE BoolTensor(FALSE,
                       [e \in 1..BatchSize |->
                           \E j \in 1..Len(reset_keys) :
                               GetOrNone(data, reset_keys[j].path).val.v[e]]))

\* lines 1169-1187: the loop over reset_keys from position i on; has_missing is "None",
\* "True" or "False"
RECURSIVE KeysFrom(_, _, _, _, _)
KeysFrom(data, reset_keys, i, reset, has_missing) ==
    IF i > Len(reset_keys)
    THEN IF has_missing = "True" THEN EndOfTraj(ones) ELSE EndOfTraj(reset)
    ELSE LET local_reset == GetOrNone(data, reset_keys[i].path)
         IN  IF local_reset = None
             THEN IF has_missing = "False"
                  THEN EndOfTrajError(PARTIAL_MISSING_ERR)
                  ELSE KeysFrom(data, reset_keys, i + 1, reset, "True")
             ELSE IF has_missing = "True"
             THEN EndOfTrajError(PARTIAL_MISSING_ERR)
             ELSE KeysFrom(data, reset_keys, i + 1, OrReset(reset, local_reset.val), "False")

\* lines 1191-1206: every "_reset" entry at every depth is or-ed into reset (the or is
\* commutative: the order of td.keys() does not show); without any, the 0-dim reset is
\* returned as it came
RECURSIVE skim_through(_, _)
skim_through(td, reset) ==
    LET here == IF "_reset" \in DOMAIN td THEN OrReset(reset, td["_reset"].val) ELSE reset
        below == {skim_through(td[k].td, TensorFalse) :
                     k \in {j \in (DOMAIN td) \ {"_reset"} : is_tensor_collection(td[j])}}
    IN  IF "_reset" \notin DOMAIN td /\ \A t \in below : "scalar" \in DOMAIN t
        THEN reset
        ELSE BoolTensor(FALSE, [i \in 1..BatchSize |-> here.v[i] \/ \E t \in below : t.v[i]])

_aggregate_end_of_traj(data, reset_keys) ==
    IF ~reset_keys.none
    THEN KeysFrom(data, reset_keys.list, 1, PyFalse, "None")
    ELSE EndOfTraj(skim_through(data, TensorFalse))

\* the batches: any of the four nodes holds a reset signal
EndOfTrajBatches ==
    {WithSignals(BatchFrom("tensordict", {}), signal, ResetNodes) :
        signal \in [ResetNodes -> ResetValues \cup {Absent}]}

InitEndOfTraj ==
    /\ op = "input"
    /\ tensordict \in EndOfTrajBatches
    /\ config \in {[reset_keys |-> NoReset], [reset_keys |-> ResetKeys(<<>>)]}
                      \cup {[reset_keys |-> ResetKeys(l)] : l \in ResetKeyLists}
    /\ result = EndOfTraj(PyFalse)
    /\ eot_data = EmptyTD
    /\ tensordict_reset = EmptyTD
    /\ next_tensordict = NoObject
    /\ returned = "None"
    /\ env = NoEnv
    /\ self = NoSelf
    /\ warnings = 0
    /\ compared = 0
    /\ path = "none"
    /\ ncalls = 0

AggregateEndOfTraj ==
    /\ op = "input"
    /\ op' = "done"
    /\ result' = _aggregate_end_of_traj(tensordict, config.reset_keys)
    /\ UNCHANGED <<tensordict, config, env, self, warnings, compared, path, ncalls,
                   next_tensordict, returned, eot_data, tensordict_reset>>

NextEndOfTraj == AggregateEndOfTraj

SpecEndOfTraj == InitEndOfTraj /\ [][NextEndOfTraj]_vars

-----------------------------------------------------------------------------
(* Vocabulary of the properties on _aggregate_end_of_traj.                 *)

\* the listed reset keys the batch holds, by position in the list
PresentKeys ==
    {i \in 1..Len(config.reset_keys.list) :
        GetOrNone(tensordict, config.reset_keys.list[i].path) # None}
ListedKeys == 1..Len(config.reset_keys.list)

(* C22: called with a list of reset keys, _aggregate_end_of_traj raises    *)
(* the partial-missing ValueError iff some listed key is present in the    *)
(* batch and some listed key is absent, whatever the order of the list;    *)
(* when every listed key is present it returns the elementwise OR of their *)
(* signals.                                                                *)
C22_PartialMissing ==
    (op = "done" /\ ~config.reset_keys.none) =>
        /\ result.err <=> (PresentKeys # {} /\ PresentKeys # ListedKeys)
        /\ result.err => result.msg = PARTIAL_MISSING_ERR
        /\ PresentKeys = ListedKeys =>
              result.reset.v =
                  [e \in 1..BatchSize |->
                      \E i \in ListedKeys :
                          GetOrNone(tensordict, config.reset_keys.list[i].path).val.v[e]]

\* a missing key listed before a present one: the error is raised
C22_Witness ==
    /\ op = "done"
    /\ ~config.reset_keys.none
    /\ Len(config.reset_keys.list) = 2
    /\ PresentKeys = {2}
    /\ result.err

-----------------------------------------------------------------------------
(* MarlGroupMapType.get_group_map and check_marl_grouping.  A group map is *)
(* a dict: the sequence, in insertion order, of its items [name, group],   *)
(* the names distinct.                                                     *)

MaxAgents == 3
MaxRefs == 3

\* raise ValueError(...): the message with what its f-string inserts
ValueError(text, name, n, m) == [err |-> TRUE, text |-> text, name |-> name, n |-> n, m |-> m]
\* the function returns (None)
Passed == [err |-> FALSE, text |-> "", name |-> "", n |-> 0, m |-> 0]

\* {agent_name: [agent_name] for agent_name in agent_names}: a repeated key keeps the place
\* of its first insertion
RECURSIVE OnePerAgentFrom(_, _, _)
OnePerAgentFrom(agent_names, i, d) ==
    IF i > Len(agent_names)
    THEN d
    ELSE OnePerAgentFrom(agent_names, i + 1,
             IF \E j \in 1..Len(d) : d[j].name = agent_names[i]
             THEN d
             ELSE Append(d, [name |-> agent_names[i], group |-> <<agent_names[i]>>]))

\* variant: the single group leaves the last agent out
GetGroupMapDroppingLast(strategy, agent_names) ==
    IF strategy = "ALL_IN_ONE_GROUP"
    THEN <<[name |-> "agents", group |-> SubSeq(agent_names, 1, Len(agent_names) - 1)]>>
    ELSE OnePerAgentFrom(agent_names, 1, <<>>)

get_group_map(strategy, agent_names) ==
    IF strategy = "ALL_IN_ONE_GROUP"
    THEN <<[name |-> "agents", group |-> agent_names]>>
    ELSE OnePerAgentFrom(agent_names, 1, <<>>)

\* lines 903-905: the first agent, in the order of agent_names, that no group holds
RECURSIVE NotFoundFrom(_, _, _)
NotFoundFrom(agent_names, i, found_agents) ==
    IF i > Len(agent_names)
    THEN Passed
    ELSE IF agent_names[i] \notin found_agents
    THEN ValueError("Agent {agent_name} not found in any group", agent_names[i], 0, 0)
    ELSE NotFoundFrom(agent_names, i + 1, found_agents)

RECURSIVE GroupsFrom(_, _, _, _)
RECURSIVE AgentsFrom(_, _, _, _, _)

\* variant: an agent met a second time is accepted
AgentsFromRepeated(group_map, agent_names, g, k, found_agents) ==
    IF k > Len(group_map[g].group)
    THEN GroupsFrom(group_map, agent_names, g + 1, found_agents)
    ELSE LET agent_name == group_map[g].group[k]
         IN  IF agent_name \notin ListSet(agent_names)
             THEN ValueError("Agent {agent_name} not present in environment", agent_name, 0, 0)
             ELSE AgentsFrom(group_map, agent_names, g, k + 1, found_agents \cup {agent_name})

\* variant: the groups are checked for emptiness after their agents
GroupsFromEmptyLast(group_map, agent_names, g, found_agents) ==
    IF g > Len(group_map)
    THEN IF \E h \in 1..Len(group_map) : Len(group_map[h].group) = 0
         THEN ValueError("Group {group_name} is empty",
                         group_map[CHOOSE h \in 1..Len(group_map) :
                                       Len(group_map[h].group) = 0].name, 0, 0)
         ELSE NotFoundFrom(agent_names, 1, found_agents)
    ELSE AgentsFrom(group_map, agent_names, g, 1, found_agents)

\* lines 896-902: the agents of group g from position k on; found_agents holds the names
\* whose flag is True
AgentsFrom(group_map, agent_names, g, k, found_agents) ==
    IF k > Len(group_map[g].group)
    THEN GroupsFrom(group_map, agent_names, g + 1, found_agents)
    ELSE LET agent_name == group_map[g].group[k]
         IN  IF agent_name \notin ListSet(agent_names)
             THEN ValueError("Agent {agent_name} not present in environment", agent_name, 0, 0)
             ELSE IF agent_name \notin found_agents
             THEN AgentsFrom(group_map, agent_names, g, k + 1, found_agents \cup {agent_name})
             ELSE ValueError("Agent {agent_name} present more than once", agent_name, 0, 0)

\* lines 893-905: the groups from position g on, then the agents left unfound
GroupsFrom(group_map, agent_names, g, found_agents) ==
    IF g > Len(group_map)
    THEN NotFoundFrom(agent_names, 1, found_agents)
    ELSE IF Len(group_map[g].group) = 0
    THEN ValueError("Group {group_name} is empty", group_map[g].name, 0, 0)
    ELSE AgentsFrom(group_map, agent_names, g, 1, found_agents)

check_marl_grouping(group_map, agent_names) ==
    LET n_agents == Len(agent_names)
    IN  IF n_agents = 0
        THEN ValueError("No agents passed", "", 0, 0)
        ELSE IF Cardinality(ListSet(agent_names)) # n_agents
        THEN ValueError("There are agents with the same name", "", 0, 0)
        ELSE IF Len(group_map) > n_agents
        THEN ValueError("Number of groups {len(group_map.keys())} greater than number of agents {n_agents}",
                        "", Len(group_map), n_agents)
        ELSE GroupsFrom(group_map, agent_names, 1, {})

\* the inputs: agent lists, and group maps of one or two groups that share out a list of
\* references to agents, one of them unknown to every agent list
AgentNames == {"a0", "a1", "a2"}
AgentLists == UNION {[1..n -> AgentNames] : n \in 0..MaxAgents}
GroupNames == {"g", "h"}
RefLists == UNION {[1..n -> AgentNames \cup {"zz"}] : n \in 0..MaxRefs}
GroupMapsOf(refs) ==
    {<<[name |-> g, group |-> refs]>> : g \in GroupNames}
        \cup {<<[name |-> gh[1], group |-> SubSeq(refs, 1, c)],
                [name |-> gh[2], group |-> SubSeq(refs, c + 1, Len(refs))]>> :
                  gh \in {x \in GroupNames \X GroupNames : x[1] # x[2]}, c \in 0..Len(refs)}
GroupMaps == {<<>>} \cup UNION {GroupMapsOf(refs) : refs \in RefLists}
Strategies == {"ALL_IN_ONE_GROUP", "ONE_GROUP_PER_AGENT"}

InitGrouping ==
    /\ op = "input"
    /\ \/ config \in [agent_names : AgentLists, group_map : GroupMaps, strategy : {"None"}]
       \/ config \in [agent_names : AgentLists, group_map : {<<>>}, strategy : Strategies]
    /\ result = Passed
    /\ tensordict = EmptyTD
    /\ eot_data = EmptyTD
    /\ tensordict_reset = EmptyTD
    /\ next_tensordict = NoObject
    /\ returned = "None"
    /\ env = NoEnv
    /\ self = NoSelf
    /\ warnings = 0
    /\ compared = 0
    /\ path = "none"
    /\ ncalls = 0

\* check_marl_grouping(group_map, agent_names) on a supplied group map
CheckMarlGrouping ==
    /\ op = "input"
    /\ config.strategy = "None"
    /\ op' = "done"
    /\ result' = check_marl_grouping(config.group_map, config.agent_names)
    /\ UNCHANGED <<tensordict, config, env, self, warnings, compared, path, ncalls,
                   next_tensordict, returned, eot_data, tensordict_reset>>

\* check_marl_grouping(strategy.get_group_map(agent_names), agent_names), lines 879-880
CheckCannedGrouping ==
    /\ op = "input"
    /\ config.strategy # "None"
    /\ op' = "done"
    /\ config' = [config EXCEPT !.group_map = get_group_map(config.strategy, config.agent_names)]
    /\ result' = check_marl_grouping(config'.group_map, config.agent_names)
    /\ UNCHANGED <<tensordict, env, self, warnings, compared, path, ncalls,
                   next_tensordict, returned, eot_data, tensordict_reset>>

NextGrouping == CheckMarlGrouping \/ CheckCannedGrouping

SpecGrouping == InitGrouping /\ [][NextGrouping]_vars

-----------------------------------------------------------------------------
(* Vocabulary of the properties on the grouping.                           *)

Checked == op = "done" /\ DOMAIN config = {"agent_names", "group_map", "strategy"}

\* the references of the group map: <<g, k>> is the k-th agent of the g-th group
RefsOf(group_map) ==
    {gk \in (1..Len(group_map)) \X (1..MaxAgents + MaxRefs) : gk[2] <= Len(group_map[gk[1]].group)}
RefName(group_map, gk) == group_map[gk[1]].group[gk[2]]

DuplicateFree(agent_names) ==
    \A i, j \in 1..Len(agent_names) : agent_names[i] = agent_names[j] => i = j

ValidGrouping(group_map, agent_names) ==
    /\ Len(agent_names) > 0
    /\ DuplicateFree(agent_names)
    /\ Len(group_map) <= Len(agent_names)
    /\ \A g \in 1..Len(group_map) : Len(group_map[g].group) > 0
    /\ \A i \in 1..Len(agent_names) :
          Cardinality({gk \in RefsOf(group_map) : RefName(group_map, gk) = agent_names[i]}) = 1
    /\ \A gk \in RefsOf(group_map) : RefName(group_map, gk) \in ListSet(agent_names)

(* C23: check_marl_grouping returns without error iff the agent list is    *)
(* non-empty and duplicate-free, there are at most as many groups as       *)
(* agents, no group is empty, every agent is referenced exactly once over  *)
(* all groups and no group references a name outside the agent list; in    *)
(* every other case it raises a ValueError.                                *)
C23_PassesIffValid ==
    Checked => (~result.err <=> ValidGrouping(config.group_map, config.agent_names))

\* agents [a0, a1, a2] with {g: [a0, a1, a2]} pass
C23_Witness ==
    /\ Checked
    /\ config.strategy = "None"
    /\ config.agent_names = <<"a0", "a1", "a2">>
    /\ config.group_map = <<[name |-> "g", group |-> <<"a0", "a1", "a2">>]>>
    /\ ~result.err

\* the seven messages
GroupingTexts ==
    {"No agents passed",
     "There are agents with the same name",
     "Number of groups {len(group_map.keys())} greater than number of agents {n_agents}",
     "Group {group_name} is empty",
     "Agent {agent_name} not present in environment",
     "Agent {agent_name} present more than once",
     "Agent {agent_name} not found in any group"}

\* the places of a group map in the order of the checks: <<g, 0>> is group g itself,
\* <<g, k>> its k-th agent
Before(r, s) == r[1] < s[1] \/ (r[1] = s[1] /\ r[2] <= s[2])
EmptyGroups(group_map) ==
    {<<g, 0>> : g \in {h \in 1..Len(group_map) : Len(group_map[h].group) = 0}}
UnknownRefs(group_map, agent_names) ==
    {gk \in RefsOf(group_map) : RefName(group_map, gk) \notin ListSet(agent_names)}
RepeatedRefs(group_map, agent_names) ==
    {gk \in RefsOf(group_map) \ UnknownRefs(group_map, agent_names) :
        \E r \in RefsOf(group_map) :
            r # gk /\ Before(r, gk) /\ RefName(group_map, r) = RefName(group_map, gk)}
Unreferenced(group_map, agent_names) ==
    {i \in 1..Len(agent_names) :
        \A gk \in RefsOf(group_map) : RefName(group_map, gk) # agent_names[i]}

\* the violation that comes first: the three about the lists as wholes, then the places
\* of the group map in order, then the agents in order
FirstViolation(group_map, agent_names) ==
    LET places == EmptyGroups(group_map) \cup UnknownRefs(group_map, agent_names)
                      \cup RepeatedRefs(group_map, agent_names)
        first == CHOOSE r \in places : \A s \in places : Before(r, s)
        missing == Unreferenced(group_map, agent_names)
    IN  IF Len(agent_names) = 0
        THEN [text |-> "No agents passed", name |-> ""]
        ELSE IF ~DuplicateFree(agent_names)
        THEN [text |-> "There are agents with the same name", name |-> ""]
        ELSE IF Len(group_map) > Len(agent_names)
        THEN [text |-> "Number of groups {len(group_map.keys())} greater than number of agents {n_agents}",
              name |-> ""]
        ELSE IF places # {}
        THEN IF first \in EmptyGroups(group_map)
             THEN [text |-> "Group {group_name} is empty", name |-> group_map[first[1]].name]
             ELSE IF first \in UnknownRefs(group_map, agent_names)
             THEN [text |-> "Agent {agent_name} not present in environment",
                   name |-> RefName(group_map, first)]
             ELSE [text |-> "Agent {agent_name} present more than once",
                   name |-> RefName(group_map, first)]
        ELSE IF missing # {}
        THEN [text |-> "Agent {agent_name} not found in any group",
              name |-> agent_names[CHOOSE i \in missing : \A j \in missing : i <= j]]
        ELSE [text |-> "", name |-> ""]

(* C24: each of the seven grouping violations has a message of its own,    *)
(* and check_marl_grouping reports the violation that comes first in the   *)
(* order of its checks (the agent list, the number of groups, then each    *)
(* group and its agents in turn, then the agents no group holds); agents   *)
(* [a0, a1, a2] with {g: [a0, a0]} fail with the message of an agent       *)
(* present more than once.                                                 *)
C24_FirstViolationReported ==
    /\ Cardinality(GroupingTexts) = 7
    /\ Checked =>
          /\ result.err => result.text \in GroupingTexts
          /\ [text |-> result.text, name |-> result.name]
                 = FirstViolation(config.group_map, config.agent_names)
          /\ (/\ config.agent_names = <<"a0", "a1", "a2">>
              /\ config.group_map = <<[name |-> "g", group |-> <<"a0", "a0">>]>>)
                 => result = ValueError("Agent {agent_name} present more than once", "a0", 0, 0)

\* an empty group listed after a group that repeats an agent: the repeat is reported
C24_Witness ==
    /\ Checked
    /\ config.agent_names = <<"a0", "a1", "a2">>
    /\ config.group_map = <<[name |-> "g", group |-> <<"a0", "a0">>], [name |-> "h", group |-> <<>>]>>
    /\ result = ValueError("Agent {agent_name} present more than once", "a0", 0, 0)

(* C25: for every non-empty list of distinct agent names, the group map of *)
(* either canned strategy (all agents in one group, one group per agent)   *)
(* passes check_marl_grouping against the same list.                       *)
C25_CannedMapsPass ==
    (/\ Checked
     /\ config.strategy # "None"
     /\ Len(config.agent_names) > 0
     /\ DuplicateFree(config.agent_names)) => ~result.err

C25_Witness ==
    /\ Checked
    /\ config.strategy = "ALL_IN_ONE_GROUP"
    /\ config.agent_names = <<"a2", "a0", "a1">>
    /\ config.group_map = <<[name |-> "agents", group |-> <<"a2", "a0", "a1">>]>>
    /\ ~result.err

\* the current batch after the reset keys from position i on, in list order: a key whose
\* node is the node of an earlier listed key or lies under it only loses its signal, any
\* other key has its node merged under its own signal
RECURSIVE InListOrder(_, _)
InListOrder(td, i) ==
    IF i > Len(config.reset_keys)
    THEN td
    ELSE LET popped == exclude(td, {config.reset_keys[i].path})
         IN  IF Covered(i)
             THEN InListOrder(popped, i + 1)
             ELSE InListOrder(WithNode(popped, OwnerOf(i),
                                       MergeNode(GetOrNone(td, config.reset_keys[i].path),
                                                 NodeAt(popped, OwnerOf(i)),
                                                 NodeAt(tensordict_reset, OwnerOf(i)))),
                              i + 1)

(* C26: _update_during_reset takes the reset keys in list order and skips  *)
(* a key whose node lies under the node of an earlier listed key: the      *)
(* skipped key's mask is not applied, its node holds what the ancestor's   *)
(* update wrote.  A descendant listed before its ancestor is not skipped   *)
(* (both nodes are updated, each under its own signal), and so is every    *)
(* node without an earlier listed ancestor.                                *)
C26_FirstAncestorWins ==
    ResetDone =>
        /\ result.out = InListOrder(tensordict, 1)
        \* a descendant listed before an ancestor whose signal is false everywhere keeps
        \* the post-reset data its own all-true signal brought in
        /\ \A i \in 1..Len(config.reset_keys) :
              (/\ ~Covered(i)
               /\ SignalOf(i) # None
               /\ FullReset(i)
               /\ \A j \in (i + 1)..Len(config.reset_keys) :
                      /\ SignalOf(j) # None
                      /\ \A e \in 1..BatchSize : ~SignalOf(j).val.v[e])
                  => GetPath(NodeAt(result.out, OwnerOf(i)), <<"obs">>) = DataFrom("tensordict_reset")

\* the root key {false, true} comes first, the key of "agents" {all true} second: the
\* node "agents" follows the root's mask
C26_Witness ==
    /\ ResetDone
    /\ Len(config.reset_keys) = 2
    /\ OwnerOf(1) = <<>>
    /\ OwnerOf(2) = <<"agents">>
    /\ MixedReset(1)
    /\ SignalOf(1).val.v[1]
    /\ SignalOf(2) # None
    /\ FullReset(2)
    /\ result.out["agents"].td["obs"].val.v
           = [e \in 1..BatchSize |-> IF e = 1 THEN "tensordict_reset" ELSE "tensordict"]

-----------------------------------------------------------------------------
(* The key trees of a _StepMDP instance: instances constructed for         *)
(* environments whose observation and state keys are any list of paths     *)
(* none of which is a strict prefix of another, in any order.              *)

MaxKeys == 2

StrictPrefix(p, q) == Len(p) < Len(q) /\ SubSeq(q, 1, Len(p)) = p

\* the lists of up to MaxKeys different paths of a pool, no path a strict prefix of another
PathLists(pool) ==
    UNION {{l \in [1..n -> pool] :
               \A i, j \in 1..n : i # j => (l[i] # l[j] /\ ~StrictPrefix(l[i], l[j]))} :
           n \in 0..MaxKeys}

ObservationPaths ==
    {<<"obs">>, <<"agents">>, <<"agents", "obs">>, <<"agents", "pos">>,
     <<"agents", "sub", "obs">>, <<"other", "obs">>}
StatePaths == {<<"extra">>, <<"group", "extra">>}

TreeEnvs ==
    {[action_keys |-> <<StrKey("action")>>, done_keys |-> <<StrKey("done")>>,
      reward_keys |-> <<StrKey("reward")>>,
      observation_keys |-> [i \in 1..Len(o) |-> unravel_key(TupleKey(o[i]))],
      state_keys |-> [i \in 1..Len(s) |-> unravel_key(TupleKey(s[i]))]] :
        o \in PathLists(ObservationPaths), s \in PathLists(StatePaths)}

\* the constructor's defaults (lines 100-103), and the setting that keeps every entry
TreeFlags ==
    {[keep_other |-> TRUE, exclude_reward |-> x, exclude_done |-> FALSE,
      exclude_action |-> x] : x \in BOOLEAN}

\* the batch that matches the declaration, and the same with one more entry
TreeBatchesFor(e) ==
    {BatchOf({<<"next">>}, DeclaredPaths(e) \cup add) : add \in {{}, {<<"undeclared">>}}}

InitKeyTree ==
    /\ op = "ready"
    /\ env \in TreeEnvs
    /\ \E f \in TreeFlags :
          /\ config = ConfigOf(f, EnvKeys(env))
          /\ self = StepMDPInit(env, f)
    /\ tensordict = EmptyTD
    /\ result = Returned(EmptyTD)
    /\ warnings = 0
    /\ compared = 0
    /\ path = "none"
    /\ ncalls = 0
    /\ next_tensordict = NoObject
    /\ returned = "None"
    /\ eot_data = EmptyTD
    /\ tensordict_reset = EmptyTD

\* _StepMDP.__call__ on one of the two batches
CallKeyTree ==
    /\ op \in {"ready", "called"}
    /\ ncalls < MaxCalls
    /\ \E td \in TreeBatchesFor(env) :
          LET c == StepMDPCall(self, td)
          IN  /\ tensordict' = td
              /\ result' = c.res
              /\ path' = c.path
              /\ self' = [self EXCEPT !.validated = c.validated]
              /\ compared' = compared + c.compared
              /\ warnings' = warnings + c.warned
    /\ op' = "called"
    /\ ncalls' = ncalls + 1
    /\ UNCHANGED <<config, env, next_tensordict, returned, eot_data, tensordict_reset>>

NextKeyTree == CallKeyTree

SpecKeyTree == InitKeyTree /\ [][NextKeyTree]_vars

-----------------------------------------------------------------------------
(* Vocabulary of the properties on the key trees.                          *)

\* the root-to-None paths of a tree
RECURSIVE NonePaths(_)
NonePaths(tree) ==
    UNION {IF tree[k] = None
           THEN {<<k>>}
           ELSE IF is_tensor_collection(tree[k])
           THEN {<<k>> \o q : q \in NonePaths(tree[k].td)}
           ELSE {} : k \in DOMAIN tree}

\* every entry of the tree is None or a mapping with at least one entry
RECURSIVE TreeShaped(_)
TreeShaped(tree) ==
    \A k \in DOMAIN tree :
        \/ tree[k] = None
        \/ /\ is_tensor_collection(tree[k])
           /\ tree[k].td # EmptyTD
           /\ TreeShaped(tree[k].td)

\* the key lists the constructor turns into trees
RootList ==
    KeysFromRoot(UnravelAll(env.action_keys), UnravelAll(env.state_keys),
                 config.exclude_action, config.keep_other)
NextList ==
    KeysFromNext(UnravelAll(env.observation_keys), UnravelAll(env.reward_keys),
                 UnravelAll(env.done_keys), config.exclude_reward, config.exclude_done)

Orders(n) == {f \in [1..n -> 1..n] : \A i, j \in 1..n : f[i] = f[j] => i = j}
Permuted(list, f) == [i \in 1..Len(list) |-> list[f[i]]]

\* the tree is the tree of its key list: its root-to-None paths are the paths of the
\* list, and it is the tree of the list in every order
TreeOf(tree, key_list) ==
    /\ TreeShaped(tree)
    /\ NonePaths(tree) = {key.path : key \in ListSet(key_list)}
    /\ \A f \in Orders(Len(key_list)) :
          _repr_key_list_as_tree(Permuted(key_list, f)) = tree

(* C27: for a list of canonical key paths none of which is a strict prefix *)
(* of another, _repr_key_list_as_tree returns a nested mapping whose       *)
(* root-to-None paths are exactly the paths of the list, every proper      *)
(* prefix being a mapping, and the mapping is the same for every order of  *)
(* the list; the two trees of an instance are built at construction and no *)
(* call of the instance modifies them.                                     *)
C27_KeyTrees ==
    /\ [](/\ TreeOf(self.keys_from_root, RootList)
          /\ TreeOf(self.keys_from_next, NextList))
    /\ [][/\ self'.keys_from_root = self.keys_from_root
          /\ self'.keys_from_next = self.keys_from_next]_vars

\* after three calls, all on the fast path: the tree of the observations
\* agents/sub/obs and agents/pos, with the reward and the done flag
C27_Witness ==
    /\ ncalls = 3
    /\ self.validated = "True"
    /\ env.observation_keys = <<TupleKey(<<"agents", "sub", "obs">>), TupleKey(<<"agents", "pos">>)>>
    /\ NonePaths(self.keys_from_next)
           = {<<"agents", "sub", "obs">>, <<"agents", "pos">>, <<"reward">>, <<"done">>}
    /\ self.keys_from_next["agents"].td["sub"].td["obs"] = None
    /\ self.keys_from_root = [action |-> None]

-----------------------------------------------------------------------------
(* Vocabulary of the properties on the traversal by _set.                  *)

\* the exclusion set step_mdp builds from its arguments
ExcludedOf(cfg) ==
    Excluded(cfg.exclude_reward, cfg.exclude_done, cfg.exclude_action,
             AsList(cfg.reward_keys), AsList(cfg.done_keys), AsList(cfg.action_keys))

\* the leaves of source under key that the exclusion set lets through: neither the
\* leaf's path nor the path of a tensordict above it is excluded
Admitted(source, key, excluded) ==
    {p \in Leaves(source) :
        /\ p[1] = key
        /\ \A n \in 1..Len(p) : unravel_key(TupleKey(SubSeq(p, 1, n))) \notin excluded}

\* no nested tensordict of td, at any depth, is empty
NoEmptyNode(td) ==
    \A p \in AllPaths(td) :
        is_tensor_collection(GetPath(td, p)) => GetPath(td, p).td # EmptyTD

\* _set applied to one key of source with an empty destination copies the admitted
\* leaves, writes no empty tensordict and returns whether it copied a leaf
SetCopies(source, key, excluded) ==
    LET r == _set(source, EmptyTD, key, <<>>, excluded)
    IN  /\ Leaves(r.dest) = Admitted(source, key, excluded)
        /\ NoEmptyNode(r.dest)
        /\ r.non_empty <=> Leaves(r.dest) # {}
        /\ ~r.non_empty => r.dest = EmptyTD

(* C30: in the traversal by _set, a nested sub-batch is written to the     *)
(* result only if a leaf beneath it was copied: a nested tensordict that   *)
(* is empty, or whose every leaf is excluded, gives no entry, so that the  *)
(* batch step_mdp returns holds no empty nested tensordict when only _set  *)
(* fills it; and _set returns true iff it copied at least one leaf.        *)
C30_NoEmptySubBatch ==
    Stepped =>
        /\ (config.keep_other \/ config.exclude_action) => NoEmptyNode(result.out)
        /\ \A key \in DOMAIN NextTD(tensordict) :
              SetCopies(NextTD(tensordict), key, ExcludedOf(config))
        /\ \A key \in (DOMAIN tensordict) \ {"next"} :
              SetCopies(tensordict, key, ExcludedOf(config))

\* "agents" is empty in the root and holds only the excluded reward in "next": the
\* batch returned has no entry "agents"
C30_Witness ==
    /\ Stepped
    /\ config.keep_other
    /\ TupleKey(<<"agents", "reward">>) \in ExcludedOf(config)
    /\ "agents" \in DOMAIN tensordict
    /\ tensordict["agents"].td = EmptyTD
    /\ "agents" \in DOMAIN NextTD(tensordict)
    /\ Leaves(NextTD(tensordict)["agents"].td) = {<<"reward">>}
    /\ "agents" \notin DOMAIN result.out
    /\ Leaves(result.out) # {}

-----------------------------------------------------------------------------
(* _set and _set_single_key with their try/except (lines 409-437 and       *)
(* 444-477), over sources whose reads can fail.  A batch may hold a nested *)
(* lazy stack: the entry StackEntry(tds), tds its member batches.  Reading *)
(* a tensor through a lazy stack whose members hold it with different      *)
(* shapes raises the RuntimeError of the heterogeneous shapes; the entry   *)
(* Failing(err) stands for any other failure: reading it raises err.  The  *)
(* message of an exception is the sequence of the parts of its text.       *)

HetPattern == "Found more than one unique shape in the tensors"

NoError == [type |-> "", message |-> <<>>]
RuntimeError(message) == [type |-> "RuntimeError", message |-> message]
\* what a lazy stack raises for a tensor of several shapes
HetError == RuntimeError(<<HetPattern, ". Make sure your stack is homogeneous">>)
\* `source.tensordicts` on an object that is not a lazy stack
AttributeError == [type |-> "AttributeError", message |-> <<"object has no attribute 'tensordicts'">>]

\* variant: the pattern is looked for anywhere in the message
MatchAnywhere(err) == \E i \in 1..Len(err.message) : err.message[i] = HetPattern

\* re.match(r"Found more than one unique shape in the tensors", str(err)): the text
\* starts with the pattern
Match(err) == Len(err.message) > 0 /\ err.message[1] = HetPattern

StackEntry(tds) == [tag |-> "stack", val |-> NoVal, td |-> tds]
Failing(err) == [tag |-> "error", val |-> err, td |-> <<>>]
Tensor(shape, name) == Leaf([shape |-> shape, name |-> name, stacked |-> <<>>])
\* the stack of the members' tensors
Stacked(leaves) == Leaf([shape |-> leaves[1].val.shape, name |-> "", stacked |-> leaves])

\* is_tensor_collection(val) for the entries of this section
IsCollection(val) == val.tag \in {"td", "stack"}

\* the object an entry holds, and the entry that holds an object
ObjOf(val) == IF val.tag = "stack" THEN LazyStackedTensorDict(val.td) ELSE TensorDict(val.td)
EntryOf(obj) ==
    IF obj.kind = "LazyStackedTensorDict" THEN StackEntry(obj.tensordicts) ELSE Node(obj.td)

\* val.empty()
EmptyOf(val) ==
    IF val.tag = "stack" THEN StackEntry([i \in 1..Len(val.td) |-> EmptyTD]) ELSE Node(EmptyTD)

\* obj.keys(): a lazy stack has the keys all its members have
KeysOf(obj) ==
    IF obj.kind = "LazyStackedTensorDict"
    THEN {k \in DOMAIN obj.tensordicts[1] :
             \A i \in 1..Len(obj.tensordicts) : k \in DOMAIN obj.tensordicts[i]}
    ELSE DOMAIN obj.td

Read(err, val) == [err |-> err, val |-> val]

\* source.get(key) / source._get_str(key, None): the entry, None when absent, or the
\* exception raised
Get(obj, key) ==
    IF obj.kind = "LazyStackedTensorDict"
    THEN LET n == Len(obj.tensordicts)
             es == [i \in 1..n |-> GetStr(obj.tensordicts[i], key)]
             bad == {i \in 1..n : es[i].tag = "error"}
         IN  IF bad # {}
             THEN Read(es[CHOOSE i \in bad : \A j \in bad : i <= j].val, None)
             ELSE IF \E i \in 1..n : es[i] = None
             THEN Read(NoError, None)
             ELSE IF \A i \in 1..n : es[i].tag = "td"
             THEN Read(NoError, StackEntry([i \in 1..n |-> es[i].td]))
             ELSE IF \A i \in 1..n : es[i].val.shape = es[1].val.shape
             THEN Read(NoError, Stacked(es))
             ELSE Read(HetError, None)
    ELSE LET e == GetStr(obj.td, key)
         IN  IF e.tag = "error" THEN Read(e.val, None) ELSE Read(NoError, e)

\* dest._set_str(key, val, inplace=False, validated=True): a lazy stack gives each member
\* its slice of val
SetObj(obj, key, val) ==
    IF obj.kind = "LazyStackedTensorDict"
    THEN LazyStackedTensorDict(
             [i \in 1..Len(obj.tensordicts) |->
                 SetStr(obj.tensordicts[i], key,
                        IF val.tag = "stack" THEN Node(val.td[i])
                        ELSE IF val.tag = "leaf" THEN val.val.stacked[i]
                        ELSE val)])
    ELSE TensorDict(SetStr(obj.td, key, val))

Outcome(dest, non_empty) == [dest |-> dest, non_empty |-> non_empty, err |-> NoError]
Fail(dest, err) == [dest |-> dest, non_empty |-> FALSE, err |-> err]

RECURSIVE SetTry(_, _, _, _, _)
RECURSIVE SetTryEach(_, _, _, _, _)
RECURSIVE SetTryMembers(_, _, _, _, _, _)

\* the loop `for subkey in val.keys(): non_empty_local = _set(...) or non_empty_local`; an
\* exception ends it
SetTryEach(source, dest, keys, total_key, excluded) ==
    IF keys = {}
    THEN Outcome(dest, FALSE)
    ELSE LET k == CHOOSE x \in keys : TRUE
             one == SetTry(source, dest, k, total_key, excluded)
             rest == SetTryEach(source, one.dest, keys \ {k}, total_key, excluded)
         IN  IF one.err # NoError
             THEN one
             ELSE IF rest.err # NoError
             THEN rest
             ELSE Outcome(rest.dest, one.non_empty \/ rest.non_empty)

\* lines 470-475: `for s_td, d_td in zip(source.tensordicts, dest.tensordicts)`, from
\* member i on; total_key already ends with key
SetTryMembers(source, dest, i, key, total_key, excluded) ==
    IF i > Len(source.tensordicts) \/ i > Len(dest.tensordicts)
    THEN Outcome(dest, FALSE)
    ELSE LET one == SetTry(TensorDict(source.tensordicts[i]), TensorDict(dest.tensordicts[i]),
                           key, total_key, excluded)
             written == LazyStackedTensorDict([dest.tensordicts EXCEPT ![i] = one.dest.td])
             rest == SetTryMembers(source, written, i + 1, key, total_key, excluded)
         IN  IF one.err # NoError
             THEN Fail(written, one.err)
             ELSE IF rest.err # NoError
             THEN rest
             ELSE Outcome(rest.dest, one.non_empty \/ rest.non_empty)

\* variant: every RuntimeError is taken for the heterogeneous key
SetTryAnyRuntimeError(source, dest, key, total_key, excluded) ==
    LET total == Append(total_key, key)
        got == Get(source, key)
        val == ObjOf(got.val)
        old == Get(dest, key).val
        new_val == IF old = None THEN ObjOf(EmptyOf(got.val)) ELSE ObjOf(old)
        sub == SetTryEach(val, new_val, KeysOf(val), total, excluded)
        try == IF got.err # NoError
               THEN Fail(dest, got.err)
               ELSE IF IsCollection(got.val)
               THEN IF sub.err # NoError
                    THEN Fail(dest, sub.err)
                    ELSE IF sub.non_empty
                    THEN Outcome(SetObj(dest, key, EntryOf(sub.dest)), TRUE)
                    ELSE Outcome(dest, FALSE)
               ELSE Outcome(SetObj(dest, key, got.val), TRUE)
    IN  IF IsExcluded(total, excluded)
        THEN Outcome(dest, FALSE)
        ELSE IF try.err.type = "RuntimeError"
        THEN IF source.kind # "LazyStackedTensorDict" \/ dest.kind # "LazyStackedTensorDict"
             THEN Outcome(dest, FALSE)
             ELSE SetTryMembers(source, dest, 1, key, total, excluded)
        ELSE try

\* _set (lines 440-479): `try` is the outcome of the try block, an exception of the
\* recursive calls included
SetTry(source, dest, key, total_key, excluded) ==
    LET total == Append(total_key, key)
        got == Get(source, key)
        val == ObjOf(got.val)
        old == Get(dest, key).val
        new_val == IF old = None THEN ObjOf(EmptyOf(got.val)) ELSE ObjOf(old)
        sub == SetTryEach(val, new_val, KeysOf(val), total, excluded)
        try == IF got.err # NoError
               THEN Fail(dest, got.err)
               ELSE IF IsCollection(got.val)
               THEN IF sub.err # NoError
                    THEN Fail(dest, sub.err)
                    ELSE IF sub.non_empty
                    THEN Outcome(SetObj(dest, key, EntryOf(sub.dest)), TRUE)
                    ELSE Outcome(dest, FALSE)
               ELSE Outcome(SetObj(dest, key, got.val), TRUE)
    IN  IF IsExcluded(total, excluded)
        THEN Outcome(dest, FALSE)
        ELSE IF try.err.type = "RuntimeError" /\ Match(try.err)
        THEN IF source.kind # "LazyStackedTensorDict" \/ dest.kind # "LazyStackedTensorDict"
             THEN Fail(dest, AttributeError)
             ELSE SetTryMembers(source, dest, 1, key, total, excluded)
        ELSE try

RECURSIVE SingleKeyTry(_, _, _, _)
RECURSIVE SingleKeyMembers(_, _, _, _)

\* lines 433-435: `for s_td, d_td in zip(source.tensordicts, dest.tensordicts):
\* _set_single_key(s_td, d_td, k, ...)`, from member i on
SingleKeyMembers(source, dest, i, k) ==
    IF i > Len(source.tensordicts) \/ i > Len(dest.tensordicts)
    THEN Outcome(dest, FALSE)
    ELSE LET one == SingleKeyTry(TensorDict(source.tensordicts[i]),
                                 TensorDict(dest.tensordicts[i]), <<k>>, 1)
             written == LazyStackedTensorDict([dest.tensordicts EXCEPT ![i] = one.dest.td])
         IN  IF one.err # NoError
             THEN Fail(written, one.err)
             ELSE SingleKeyMembers(source, written, i + 1, k)

\* _set_single_key (lines 402-437) from segment i of the key on; each segment has its
\* own try
SingleKeyTry(source, dest, key, i) ==
    IF i > Len(key)
    THEN Outcome(dest, FALSE)
    ELSE LET k == key[i]
             got == Get(source, k)
             old == Get(dest, k).val
             new_val == IF old = None THEN EmptyOf(got.val) ELSE old
             below == SingleKeyTry(ObjOf(got.val), ObjOf(new_val), key, i + 1)
         IN  IF got.err # NoError
             THEN IF got.err.type = "RuntimeError" /\ Match(got.err)
                  THEN IF source.kind # "LazyStackedTensorDict"
                            \/ dest.kind # "LazyStackedTensorDict"
                       THEN Fail(dest, AttributeError)
                       ELSE SingleKeyMembers(source, dest, 1, k)
                  ELSE Fail(dest, got.err)
             ELSE IF IsCollection(got.val)
             THEN IF below.err # NoError
                  THEN Fail(SetObj(dest, k, EntryOf(below.dest)), below.err)
                  ELSE Outcome(SetObj(dest, k, EntryOf(below.dest)), FALSE)
             ELSE SingleKeyTry(source, SetObj(dest, k, got.val), key, i + 1)

\* the failures a read can raise besides the heterogeneous shapes: a RuntimeError with
\* another message, one that holds the pattern but does not start with it, an exception
\* of another type whose message starts with the pattern, and a RuntimeError whose
\* message starts with the pattern raised by a source that is not a lazy stack
Failures ==
    {RuntimeError(<<"CUDA error: ", "device-side assert triggered">>),
     RuntimeError(<<"Error: ", HetPattern>>),
     [type |-> "KeyError", message |-> <<HetPattern>>],
     RuntimeError(<<HetPattern, " (raised elsewhere)">>)}

\* member i of the nested lazy stack "agents": an observation, an action and a nested
\* position; `het` names the entries whose shape differs in the last member, `bad` the
\* entries whose read fails in this member
StackMember(i, het, bad, err) ==
    LET shape(k) == IF k \in het /\ i = MaxStack THEN 4 ELSE 3
        entry(k) == IF k \in bad THEN Failing(err) ELSE Tensor(shape(k), Member(i))
    IN  [k \in {"obs", "act", "sub"} |->
            IF k = "sub" THEN Node([j \in {"pos"} |-> entry("pos")]) ELSE entry(k)]

\* the places of a failing read: nowhere, at the root, or in one member of the stack
FailingPlaces ==
    {[root |-> r, member |-> m, keys |-> b] :
        r \in BOOLEAN, m \in 0..MaxStack, b \in {{}, {"act"}, {"pos"}}}

SourceOf(het, place, err) ==
    LET agents == StackEntry([i \in 1..MaxStack |->
                      StackMember(i, het, IF i = place.member THEN place.keys ELSE {}, err)])
        root == [k \in {"obs", "agents"} |-> IF k = "obs" THEN Tensor(3, "td") ELSE agents]
    IN  IF place.root THEN SetStr(root, "bad", Failing(err)) ELSE root

TrySources ==
    {SourceOf(het, place, err) :
        het \in SUBSET {"obs", "pos"},
        place \in {p \in FailingPlaces :
                      (p.root => p.member = 0) /\ (p.member = 0 <=> p.keys = {})},
        err \in Failures}

TryExcluded ==
    SUBSET {TupleKey(<<"agents", "obs">>), TupleKey(<<"agents", "act">>), StrKey("bad")}

\* the call: _set on a key of the source, or _set_single_key on a key path
TryCalls ==
    {[fn |-> "_set", key |-> <<k>>] : k \in {"obs", "agents", "bad"}}
        \cup {[fn |-> "_set_single_key", key |-> q] :
                 q \in {<<"obs">>, <<"bad">>, <<"agents", "obs">>, <<"agents", "act">>,
                        <<"agents", "sub", "pos">>}}

InitTry ==
    /\ op = "input"
    /\ tensordict \in TrySources
    /\ config \in {c \in [excluded : TryExcluded, call : TryCalls] :
                      c.call.fn = "_set_single_key" => c.excluded = {}}
    /\ config.call.key[1] \in DOMAIN tensordict
    /\ result = Outcome(TensorDict(EmptyTD), FALSE)
    /\ eot_data = EmptyTD
    /\ tensordict_reset = EmptyTD
    /\ next_tensordict = NoObject
    /\ returned = "None"
    /\ env = NoEnv
    /\ self = NoSelf
    /\ warnings = 0
    /\ compared = 0
    /\ path = "none"
    /\ ncalls = 0

\* _set(source, dest, key, (), excluded) with an empty destination
SetCall ==
    /\ op = "input"
    /\ config.call.fn = "_set"
    /\ op' = "done"
    /\ result' = SetTry(TensorDict(tensordict), TensorDict(EmptyTD), config.call.key[1],
                        <<>>, config.excluded)
    /\ UNCHANGED <<tensordict, config, env, self, warnings, compared, path, ncalls,
                   next_tensordict, returned, eot_data, tensordict_reset>>

\* _set_single_key(source, dest, key) with an empty destination
SetSingleKeyCall ==
    /\ op = "input"
    /\ config.call.fn = "_set_single_key"
    /\ op' = "done"
    /\ result' = SingleKeyTry(TensorDict(tensordict), TensorDict(EmptyTD), config.call.key, 1)
    /\ UNCHANGED <<tensordict, config, env, self, warnings, compared, path, ncalls,
                   next_tensordict, returned, eot_data, tensordict_reset>>

NextTry == SetCall \/ SetSingleKeyCall

SpecTry == InitTry /\ [][NextTry]_vars

-----------------------------------------------------------------------------
(* Vocabulary of the properties on the failures.                           *)

\* the failing entries of a batch: [path, err], the path through the members of a stack
RECURSIVE FailingIn(_)
FailingIn(td) ==
    UNION {IF td[k].tag = "error"
           THEN {[path |-> <<k>>, err |-> td[k].val]}
           ELSE IF td[k].tag = "td"
           THEN {[path |-> <<k>> \o f.path, err |-> f.err] : f \in FailingIn(td[k].td)}
           ELSE IF td[k].tag = "stack"
           THEN UNION {{[path |-> <<k>> \o f.path, err |-> f.err] : f \in FailingIn(td[k].td[i])} :
                          i \in 1..Len(td[k].td)}
           ELSE {} : k \in DOMAIN td}

\* the call reads the entry at path p: _set goes through the key and everything below
\* it that is not excluded, _set_single_key along its key
ReadsAt(p) ==
    IF config.call.fn = "_set"
    THEN /\ p[1] = config.call.key[1]
         /\ \A n \in 1..Len(p) : unravel_key(TupleKey(SubSeq(p, 1, n))) \notin config.excluded
    ELSE Len(p) <= Len(config.call.key) /\ SubSeq(config.call.key, 1, Len(p)) = p

FailuresRead == {f \in FailingIn(tensordict) : ReadsAt(f.path)}

\* the heterogeneous condition as the code tests it
IsHetCondition(err) ==
    err.type = "RuntimeError" /\ err.message # <<>> /\ Head(err.message) = HetPattern

\* the tensor of member i of "agents" at key path q, in the source and in the result
SourceTensor(i, q) == GetPath(tensordict["agents"].td[i], q)
HetRead(q) ==
    /\ ReadsAt(<<"agents">> \o q)
    /\ \E i \in 1..MaxStack : SourceTensor(i, q).val.shape # SourceTensor(1, q).val.shape

(* C28: in _set and _set_single_key a failure of a read or a write turns   *)
(* into the element-wise recursion over the members of the stacked source  *)
(* and destination only when it is a RuntimeError whose message starts     *)
(* with "Found more than one unique shape in the tensors"; any other       *)
(* failure (a RuntimeError with another message, an exception of another   *)
(* type) reaches the caller unchanged and is never swallowed.              *)
C28_OnlyHetIsConverted ==
    op = "done" =>
        \* no failure is read: no exception, and a tensor of several shapes is copied
        \* member by member
        /\ FailuresRead = {} =>
              /\ result.err = NoError
              /\ \A q \in {<<"obs">>, <<"sub", "pos">>} :
                    HetRead(q) =>
                        \A i \in 1..MaxStack :
                            GetPath(result.dest.td["agents"].td[i], q) = SourceTensor(i, q)
        \* a failure is read: it is the exception of the call, unless it is the
        \* heterogeneous condition, which is never passed on as it is
        /\ \A f \in FailuresRead :
              IF IsHetCondition(f.err)
              THEN result.err # f.err
              ELSE result.err = f.err

\* the position has two shapes and the action of a member raises a RuntimeError with
\* another message: _set("agents") ends with that exception
C28_Witness ==
    /\ op = "done"
    /\ config.call = [fn |-> "_set", key |-> <<"agents">>]
    /\ HetRead(<<"sub", "pos">>)
    /\ \E f \in FailuresRead :
          /\ f.path = <<"agents", "act">>
          /\ f.err = RuntimeError(<<"Error: ", HetPattern>>)
          /\ result.err = f.err

=============================================================================
